---- MODULE Spec2Model ----
(***************************************************************************)
(* Workflow subsystem of gcc-creative-studio (backend/src/workflows):      *)
(* the step model, the compiler of a step list into a remote workflow      *)
(* definition (_generate_workflow_yaml), the CRUD / execute operations of  *)
(* WorkflowService with their snapshot rows, and the reconstruction of an   *)
(* execution trace (get_execution_details); the workflows executor         *)
(* (backend/src/workflows_executor) with its polling loop, and the image   *)
(* generation job it waits for (backend/src/images/imagen_service.py).     *)
(*                                                                         *)
(* Python values are tagged records: the field py names the Python type.   *)
(* Pydantic model instances (StepOutputReference, ReferenceMediaOrAsset)   *)
(* keep their class name in py; model_dump turns them into dicts.          *)
(***************************************************************************)
EXTENDS Integers, Sequences, FiniteSets, TLC

VARIABLES
    workflows,      \* table "workflows": workflow id -> WorkflowModel
    gcp_workflows,  \* remote engine: workflow id -> registered source
    workflow_runs,  \* table "workflow_runs": execution id -> WorkflowRun row
    executions,     \* remote engine: execution id -> execution record
    media_items,    \* table "media_items": media item id -> the row of an image job
    ids,            \* how many workflow ids / execution ids were drawn so far
    resp,           \* the last call and what it returned or raised
    clock,          \* wall clock (datetime.now / the remote engine's time)
    pc,             \* position of the pure-function specifications
    input,          \* their input
    output,         \* their result
    db_lock,        \* batch_execute_workflow: the row holding db_lock, 0 when free
    tasks           \* batch_execute_workflow: the process_row task of each row;
                    \* workflows executor: the locals of the request's coroutine

vars == <<workflows, gcp_workflows, workflow_runs, executions, media_items, ids, resp, clock, pc, input, output,
         db_lock, tasks>>

service_vars == <<workflows, gcp_workflows, workflow_runs, executions, media_items, ids, resp, clock>>

pure_vars == <<pc, input, output, db_lock, tasks>>

(***************************************************************************)
(* Bounds of the model.                                                    *)
(***************************************************************************)
MaxCompileSteps == 2

MaxTraceSteps == 3

MaxLogLen == 2

(***************************************************************************)
(* Python values.                                                          *)
(***************************************************************************)
None == [py |-> "NoneType"]

PyStr(s) == [py |-> "str", v |-> s]

PyInt(n) == [py |-> "int", v |-> n]

PyBool(b) == [py |-> "bool", v |-> b]

PyList(xs) == [py |-> "list", v |-> xs]

PyDict(f) == [py |-> "dict", v |-> f]

StepOutputReference(s, o) == [py |-> "StepOutputReference", step |-> s, output |-> o]

ReferenceMediaOrAsset(url, asset) == [py |-> "ReferenceMediaOrAsset", previewUrl |-> url, sourceAssetId |-> asset, sourceMediaItem |-> None]

\* An object without fields (UserInputInputs, UserInputSettings, VirtualTryOnSettings).
EmptyModel == <<>>

\* BaseModel.model_dump() of an input value: model instances become dicts,
\* lists are dumped element by element, everything else is kept.
RECURSIVE model_dump(_)
model_dump(value) ==
    CASE value.py = "StepOutputReference" ->
            PyDict([step |-> PyStr(value.step), output |-> PyStr(value.output)])
      [] value.py = "ReferenceMediaOrAsset" ->
            PyDict([previewUrl |-> PyStr(value.previewUrl),
                  sourceAssetId |-> value.sourceAssetId,
                  sourceMediaItem |-> value.sourceMediaItem])
      [] value.py = "list" ->
            PyList([i \in 1..Len(value.v) |-> model_dump(value.v[i])])
      [] OTHER -> value

\* model_dump() of an inputs / settings object: field name -> dumped value.
model_dump_fields(obj) == [f \in DOMAIN obj |-> model_dump(obj[f])]

(***************************************************************************)
(* Step model (workflow_model.py).                                         *)
(***************************************************************************)
USER_INPUT == "user_input"

GENERATE_TEXT == "generate_text"

GENERATE_IMAGE == "generate_image"

CROP_IMAGE == "crop_image"

\* BaseStep: the fields every step carries; the execution-state fields have
\* their template defaults.  outputs is the key list of the outputs dict, in
\* insertion order.
BaseStep(id, type, inputs, settings, outputs) ==
    [step_id |-> id, type |-> type, status |-> "idle", error |-> None,
     started_at |-> None, completed_at |-> None,
     outputs |-> outputs, inputs |-> inputs, settings |-> settings]

UserInputStep(id, outputs) == BaseStep(id, USER_INPUT, EmptyModel, EmptyModel, outputs)

GenerateTextStep(id, prompt, input_images, outputs) ==
    BaseStep(id, GENERATE_TEXT,
             [prompt |-> prompt, input_images |-> input_images, input_videos |-> None],
             [model |-> PyStr("gemini"), temperature |-> PyInt(1)], outputs)

GenerateImageStep(id, prompt, outputs) ==
    BaseStep(id, GENERATE_IMAGE, [prompt |-> prompt],
             [model |-> PyStr("imagen"), brand_guidelines |-> PyBool(FALSE), aspect_ratio |-> PyStr("1:1")],
             outputs)

CropImageStep(id, input_image, outputs) ==
    BaseStep(id, CROP_IMAGE, [input_image |-> input_image],
             [crop_aspect_ratio |-> PyStr("1:1"), fill_aspect_ratio |-> PyBool(TRUE), background_color |-> PyStr("#fff")],
             outputs)

\* WorkflowModel: id and timestamps of the stored document, plus WorkflowBase.
WorkflowModel(id, user_id, name, description, steps, created_at, updated_at) ==
    [id |-> id, user_id |-> user_id, name |-> name, description |-> description,
     steps |-> steps, created_at |-> created_at, updated_at |-> updated_at]

(***************************************************************************)
(* Bounded universes of steps and workflows.                               *)
(***************************************************************************)
StepIds == {"u", "a", "b"}

Media == ReferenceMediaOrAsset("gs://p", PyInt(5))

\* prompt: Union[StepOutputReference, str]
PromptValues == {PyStr("hello")} \cup {StepOutputReference(s, "x") : s \in StepIds}

\* input_image: a reference on its own, in a list, and in a list inside a list
ImageValues ==
    {PyList(<<StepOutputReference(s, "y"), Media>>) : s \in StepIds}
    \cup {PyList(<<PyInt(7), PyList(<<StepOutputReference(s, "x")>>)>>) : s \in StepIds}

UserInputSteps == {UserInputStep(id, <<"x", "y">>) : id \in StepIds}

GenerateImageSteps == {GenerateImageStep(id, p, <<"x">>) : id \in StepIds, p \in PromptValues}

CropImageSteps == {CropImageStep(id, v, <<"x", "y">>) : id \in StepIds, v \in ImageValues}

\* input_images: Optional[WorkflowInputItem], left out, a media reference
\* or a media item id.
GenerateTextSteps ==
    {GenerateTextStep("a", PyStr("hello"), v, <<"x">>) : v \in {None, Media, PyInt(7)}}

SeqsUpTo(S, n) == UNION {[1..k -> S] : k \in 0..n}

(***************************************************************************)
(* Workflow compiler (workflow_service.py, _generate_workflow_yaml).       *)
(***************************************************************************)
BACKEND_EXECUTOR_URL == "https://executor"

\* A resolve_value that takes every dict for something to rewrite: a
\* media reference is replaced by its preview URL.
RECURSIVE compile_resolve_value_any_dict(_, _)
compile_resolve_value_any_dict(value, user_input_step_id) ==
    IF value.py = "dict" /\ "step" \in DOMAIN value.v /\ "output" \in DOMAIN value.v
    THEN LET ref_step_id == value.v["step"]
             ref_output_name == value.v["output"]
         IN  IF ref_step_id = user_input_step_id
             THEN PyStr("${args." \o ref_output_name.v \o "}")
             ELSE PyStr("${" \o ref_step_id.v \o "_result.body." \o ref_output_name.v \o "}")
    ELSE IF value.py = "dict" /\ "previewUrl" \in DOMAIN value.v
    THEN value.v["previewUrl"]
    ELSE IF value.py = "list"
    THEN PyList([i \in 1..Len(value.v) |-> compile_resolve_value_any_dict(value.v[i], user_input_step_id)])
    ELSE value

\* resolve_value of the compiler: works on the dumped inputs.
RECURSIVE compile_resolve_value(_, _)
compile_resolve_value(value, user_input_step_id) ==
    IF value.py = "dict" /\ "step" \in DOMAIN value.v /\ "output" \in DOMAIN value.v
    THEN LET ref_step_id == value.v["step"]
             ref_output_name == value.v["output"]
         IN  IF ref_step_id = user_input_step_id
             THEN PyStr("${args." \o ref_output_name.v \o "}")
             ELSE PyStr("${" \o ref_step_id.v \o "_result.body." \o ref_output_name.v \o "}")
    ELSE IF value.py = "list"
    THEN PyList([i \in 1..Len(value.v) |-> compile_resolve_value(value.v[i], user_input_step_id)])
    ELSE value

\* A call step that captures its result under the step type's name.
gcp_step_result_by_type(step, user_input_step_id) ==
    LET step_type == step.type
        step_name == step.step_id
        config == model_dump_fields(step.settings)
        dumped == model_dump_fields(step.inputs)
        resolved_inputs == [f \in DOMAIN dumped |-> compile_resolve_value(dumped[f], user_input_step_id)]
        body == [workspace_id |-> "${args.workspace_id}", inputs |-> resolved_inputs, config |-> config]
    IN  [name |-> step_name,
         call |-> "http.post",
         args |-> [url |-> BACKEND_EXECUTOR_URL \o "/" \o step_type,
                   headers |-> [Authorization |-> "${args.user_auth_header}"],
                   body |-> body],
         result |-> step_type \o "_result"]

\* The call step emitted for one non-user-input step.
gcp_step(step, user_input_step_id) ==
    LET step_type == step.type
        step_name == step.step_id
        config == model_dump_fields(step.settings)
        dumped == model_dump_fields(step.inputs)
        resolved_inputs == [f \in DOMAIN dumped |-> compile_resolve_value(dumped[f], user_input_step_id)]
        body == [workspace_id |-> "${args.workspace_id}", inputs |-> resolved_inputs, config |-> config]
    IN  [name |-> step_name,
         call |-> "http.post",
         args |-> [url |-> BACKEND_EXECUTOR_URL \o "/" \o step_type,
                   headers |-> [Authorization |-> "${args.user_auth_header}"],
                   body |-> body],
         result |-> step_name \o "_result"]

\* The loop over workflow.steps, from step i on; st holds the loop's locals.
RECURSIVE compile_loop(_, _, _)
compile_loop(steps, i, st) ==
    IF i > Len(steps) THEN st
    ELSE LET step == steps[i] IN
         IF step.type = USER_INPUT
         THEN compile_loop(steps, i + 1,
                  [st EXCEPT !.user_input_step_id = PyStr(step.step_id),
                             !.workflow_params = st.workflow_params \o step.outputs])
         ELSE compile_loop(steps, i + 1,
                  [st EXCEPT !.gcp_steps = Append(st.gcp_steps, gcp_step(step, st.user_input_step_id))])

\* A compiler that emits the collected parameter names as the parameters.
generate_workflow_yaml_with_params(workflow) ==
    LET st == compile_loop(workflow.steps, 1,
                  [user_input_step_id |-> None, workflow_params |-> <<"user_auth_header">>, gcp_steps |-> <<>>])
    IN  [main |-> [params |-> st.workflow_params, steps |-> st.gcp_steps]]

\* _generate_workflow_yaml: the dict handed to yaml.dump.
generate_workflow_yaml(workflow) ==
    LET st == compile_loop(workflow.steps, 1,
                  [user_input_step_id |-> None, workflow_params |-> <<"user_auth_header">>, gcp_steps |-> <<>>])
    IN  [main |-> [params |-> <<"args">>, steps |-> st.gcp_steps]]

(***************************************************************************)
(* Trace reconstruction (workflow_service.py, get_execution_details).      *)
(*                                                                         *)
(* A Python dict is a function from keys to values, {} is the empty        *)
(* function.  A resource name ("projects/p/locations/l/workflows/w/...")   *)
(* is the sequence of its segments between the slashes, so that            *)
(* startswith("projects/") and split('/')[-1] are computed on it; a short   *)
(* execution id is a name of one segment.                                  *)
(***************************************************************************)
PROJECT_ID == "p"

WORKFLOWS_LOCATION == "l"

\* dict.get(key, default)
dict_get(d, key, default) == IF key \in DOMAIN d THEN d[key] ELSE default

\* d[key] = value on a dict
dict_set(d, key, value) == [k \in DOMAIN d \cup {key} |-> IF k = key THEN value ELSE d[k]]

\* WorkflowsClient.workflow_path
workflow_path(project, location, workflow) ==
    <<"projects", project, "locations", location, "workflows", workflow>>

\* execution_id.startswith("projects/")
startswith_projects(name) == Len(name) > 1 /\ name[1] = "projects"

\* name.split('/')[-1]
split_last(name) == name[Len(name)]

\* json.dumps of an argument map, and json.loads of the text.
json_dumps(d) == [py |-> "str", json |-> d]

json_loads(s) == s.json

\* datetime.isoformat()
isoformat(t) == PyStr("T" \o ToString(t.v))

\* datetime values
DateTime(t) == [py |-> "datetime", v |-> t]

\* resolve_value of the trace reconstructor: works on the model instances.
RECURSIVE trace_resolve_value(_, _)
trace_resolve_value(value, previous_outputs) ==
    IF value.py = "StepOutputReference"
    THEN dict_get(dict_get(previous_outputs, value.step, <<>>), value.output, None)
    ELSE IF value.py = "list"
    THEN PyList([i \in 1..Len(value.v) |-> trace_resolve_value(value.v[i], previous_outputs)])
    ELSE value

\* An iteration that takes the whole result variable as the outputs.
format_entry_whole_result(steps, entry, st) ==
    LET step_id == entry.step
        found == {i \in 1..Len(steps) : steps[i].step_id = step_id}
    IN  IF step_id = "end" THEN st
        ELSE IF found = {} THEN st
        ELSE LET current_step == steps[CHOOSE i \in found : \A j \in found : i <= j]
                 step_state == dict_get(entry, "state", None)
                 step_inputs == [f \in DOMAIN current_step.inputs |->
                                    trace_resolve_value(current_step.inputs[f], st.previous_outputs)]
                 variable_data == dict_get(entry, "variableData", <<>>)
                 variables == dict_get(variable_data, "variables", <<>>)
                 step_results == dict_get(variables, step_id \o "_result", <<>>)
                 step_outputs == step_results
             IN  [previous_outputs |-> dict_set(st.previous_outputs, step_id, step_outputs),
                  formatted_step_entries |-> Append(st.formatted_step_entries,
                      [step_id |-> step_id,
                       state |-> step_state,
                       step_inputs |-> step_inputs,
                       step_outputs |-> step_outputs,
                       start_time |-> dict_get(entry, "createTime", None),
                       end_time |-> dict_get(entry, "updateTime", None)])]

\* One iteration of the loop over the fetched step entries.
format_entry(steps, entry, st) ==
    LET step_id == entry.step
        found == {i \in 1..Len(steps) : steps[i].step_id = step_id}
    IN  IF step_id = "end" THEN st
        ELSE IF found = {} THEN st
        ELSE LET current_step == steps[CHOOSE i \in found : \A j \in found : i <= j]
                 step_state == dict_get(entry, "state", None)
                 step_inputs == [f \in DOMAIN current_step.inputs |->
                                    trace_resolve_value(current_step.inputs[f], st.previous_outputs)]
                 variable_data == dict_get(entry, "variableData", <<>>)
                 variables == dict_get(variable_data, "variables", <<>>)
                 step_results == dict_get(variables, step_id \o "_result", <<>>)
                 step_outputs == dict_get(step_results, "body", <<>>)
             IN  [previous_outputs |-> dict_set(st.previous_outputs, step_id, step_outputs),
                  formatted_step_entries |-> Append(st.formatted_step_entries,
                      [step_id |-> step_id,
                       state |-> step_state,
                       step_inputs |-> step_inputs,
                       step_outputs |-> step_outputs,
                       start_time |-> dict_get(entry, "createTime", None),
                       end_time |-> dict_get(entry, "updateTime", None)])]

RECURSIVE trace_loop(_, _, _, _)
trace_loop(steps, step_entries, k, st) ==
    IF k > Len(step_entries) THEN st
    ELSE trace_loop(steps, step_entries, k + 1, format_entry(steps, step_entries[k], st))

\* A virtual entry that ends when the execution ended.
virtual_entry_ends_with_execution(user_input_step_id, user_inputs, execution) ==
    [step_id |-> user_input_step_id,
     state |-> "STATE_SUCCEEDED",
     step_inputs |-> <<>>,
     step_outputs |-> user_inputs,
     start_time |-> IF execution.start_time # None THEN isoformat(execution.start_time) ELSE None,
     end_time |-> IF execution.end_time # None THEN isoformat(execution.end_time) ELSE None]

\* The virtual entry of the user-input step.
virtual_entry(user_input_step_id, user_inputs, execution) ==
    [step_id |-> user_input_step_id,
     state |-> "STATE_SUCCEEDED",
     step_inputs |-> <<>>,
     step_outputs |-> user_inputs,
     start_time |-> IF execution.start_time # None THEN isoformat(execution.start_time) ELSE None,
     end_time |-> IF execution.start_time # None THEN isoformat(execution.start_time) ELSE None]

\* Lines 585-649: the formatted entries for a definition with a first step.
formatted_step_entries(workflow_model, user_inputs, execution, step_entries) ==
    LET user_input_step_id == workflow_model.steps[1].step_id
        st0 == [previous_outputs |-> (user_input_step_id :> user_inputs),
                formatted_step_entries |-> <<virtual_entry(user_input_step_id, user_inputs, execution)>>]
    IN  trace_loop(workflow_model.steps, step_entries, 1, st0).formatted_step_entries

(***************************************************************************)
(* Persistence.  The two repositories inherit create / get_by_id / update  *)
(* / delete from a generic string-keyed repository; a table is a function  *)
(* from primary key to row.                                                *)
(***************************************************************************)
repo_create(table, row) == table @@ (row.id :> row)

repo_get_by_id(table, id) == IF id \in DOMAIN table THEN table[id] ELSE None

\* update of the columns named in data; no row, no change.
repo_update(table, id, data) ==
    IF id \in DOMAIN table
    THEN [table EXCEPT ![id] = [f \in DOMAIN table[id] |-> IF f \in DOMAIN data THEN data[f] ELSE table[id][f]]]
    ELSE table

repo_delete(table, id) == [k \in DOMAIN table \ {id} |-> table[k]]

\* WorkflowRun.workflow_id is a foreign key to workflows.id with
\* ondelete="CASCADE": deleting a workflow row deletes its run rows.
cascade_delete_runs(runs, workflow_id) ==
    [k \in {r \in DOMAIN runs : runs[r].workflow_id # workflow_id} |-> runs[k]]

(***************************************************************************)
(* Snapshots (workflow_service.py, _create_execution_snapshot and the      *)
(* rehydration in get_execution_details).                                  *)
(***************************************************************************)
RUNNING == "running"

COMPLETED == "completed"

FAILED == "failed"

CANCELED == "canceled"

SCHEDULED == "scheduled"

\* model_dump of one step: inputs and settings become dicts.
dump_step(step) ==
    [step EXCEPT !.inputs = model_dump_fields(step.inputs), !.settings = model_dump_fields(step.settings)]

\* A dump that keeps the two timestamps.
snapshot_dump_with_timestamps(workflow_model) ==
    [id |-> workflow_model.id, user_id |-> workflow_model.user_id, name |-> workflow_model.name,
     description |-> workflow_model.description,
     steps |-> [i \in 1..Len(workflow_model.steps) |->
                  [workflow_model.steps[i] EXCEPT !.inputs = model_dump_fields(@), !.settings = model_dump_fields(@)]],
     created_at |-> workflow_model.created_at, updated_at |-> workflow_model.updated_at]

\* snapshot.model_dump(mode='json', exclude={"created_at", "updated_at"})
snapshot_dump(workflow_model) ==
    [id |-> workflow_model.id, user_id |-> workflow_model.user_id, name |-> workflow_model.name,
     description |-> workflow_model.description,
     steps |-> [i \in 1..Len(workflow_model.steps) |-> dump_step(workflow_model.steps[i])]]

\* workflow_model.model_dump(by_alias=True)
workflow_dump(workflow_model) ==
    [id |-> workflow_model.id, user_id |-> workflow_model.user_id, name |-> workflow_model.name,
     description |-> workflow_model.description,
     steps |-> [i \in 1..Len(workflow_model.steps) |-> dump_step(workflow_model.steps[i])],
     created_at |-> workflow_model.created_at, updated_at |-> workflow_model.updated_at]

\* Validation of a dumped input value against the input unions: a dict with
\* step and output is a StepOutputReference, a dict with previewUrl a
\* ReferenceMediaOrAsset, a list is validated element by element.
RECURSIVE model_validate_value(_)
model_validate_value(value) ==
    IF value.py = "dict" /\ DOMAIN value.v = {"step", "output"}
    THEN StepOutputReference(value.v["step"].v, value.v["output"].v)
    ELSE IF value.py = "dict" /\ "previewUrl" \in DOMAIN value.v
    THEN [py |-> "ReferenceMediaOrAsset", previewUrl |-> value.v["previewUrl"].v,
          sourceAssetId |-> value.v["sourceAssetId"], sourceMediaItem |-> value.v["sourceMediaItem"]]
    ELSE IF value.py = "list"
    THEN PyList([i \in 1..Len(value.v) |-> model_validate_value(value.v[i])])
    ELSE value

validate_step(d) ==
    [d EXCEPT !.inputs = [f \in DOMAIN d.inputs |-> model_validate_value(d.inputs[f])],
              !.settings = [f \in DOMAIN d.settings |-> model_validate_value(d.settings[f])]]

\* WorkflowModel.model_validate(snapshot): the timestamps take their default.
rehydrate(snapshot) ==
    WorkflowModel(snapshot.id, snapshot.user_id, snapshot.name, snapshot.description,
                  [i \in 1..Len(snapshot.steps) |-> validate_step(snapshot.steps[i])], None, None)

\* bool(value) of an argument value
truthy(value) ==
    CASE value.py = "NoneType" -> FALSE
      [] value.py = "str" -> value.v # ""
      [] value.py = "int" -> value.v # 0
      [] OTHER -> TRUE

\* The decimal strings int() parses in this model.
DecimalStrings == ("7" :> 7)

\* workspace_id = int(workspace_id) inside try / bare except.
to_int_or_none(value) ==
    CASE value.py = "int" -> value
      [] value.py = "str" /\ value.v \in DOMAIN DecimalStrings -> PyInt(DecimalStrings[value.v])
      [] OTHER -> None

\* Lines 344-350 of execute_workflow.
workspace_id_of(args) ==
    LET workspace_id == dict_get(args, "workspace_id", None)
    IN  IF truthy(workspace_id) THEN to_int_or_none(workspace_id) ELSE workspace_id

\* WorkflowRunModel(...): workspace_id is Optional[int]; any other value is a
\* validation error.
WorkflowRunModel(id, workflow_id, user_id, workspace_id, status, started_at, workflow_snapshot) ==
    [id |-> id, workflow_id |-> workflow_id, user_id |-> user_id, workspace_id |-> workspace_id,
     status |-> status, started_at |-> started_at, completed_at |-> None,
     workflow_snapshot |-> workflow_snapshot]

run_model_valid(workspace_id) == workspace_id = None \/ workspace_id.py = "int"

\* A snapshot write whose failure reaches the caller.
create_execution_snapshot_raising(runs, execution_id, workflow_id, snapshot, user_id, workspace_id, insert_ok, now) ==
    IF run_model_valid(workspace_id) /\ insert_ok
    THEN [raised |-> None,
          runs |-> repo_create(runs, WorkflowRunModel(execution_id, workflow_id, user_id, workspace_id,
                                                      RUNNING, DateTime(now), snapshot_dump(snapshot)))]
    ELSE [raised |-> PyStr("Exception"), runs |-> runs]

\* _create_execution_snapshot: the run table afterwards.  Every exception
\* (validation of the row, the insert) is logged and swallowed.
create_execution_snapshot(runs, execution_id, workflow_id, snapshot, user_id, workspace_id, insert_ok, now) ==
    LET snapshot_data == snapshot_dump(snapshot)
        workflow_run == WorkflowRunModel(execution_id, workflow_id, user_id, workspace_id,
                                         RUNNING, DateTime(now), snapshot_data)
    IN  IF run_model_valid(workspace_id) /\ insert_ok
        THEN [raised |-> None, runs |-> repo_create(runs, workflow_run)]
        ELSE [raised |-> None, runs |-> runs]

(***************************************************************************)
(* get_execution_details.                                                  *)
(***************************************************************************)
\* ExecutionsClient.get_execution: the execution of that name, NotFound
\* (None) when the remote engine has none.
client_get_execution(name) ==
    IF Len(name) = 8 /\ split_last(name) \in DOMAIN executions
    THEN IF executions[split_last(name)].name = name THEN executions[split_last(name)] ELSE None
    ELSE None

\* Lines 512-521: end - start, or the time elapsed so far.
duration_of(execution, now) ==
    IF execution.start_time = None THEN 0
    ELSE IF execution.end_time # None THEN execution.end_time.v - execution.start_time.v
    ELSE now - execution.start_time.v

\* A choice that always takes the live definition.
choose_live_definition(snapshot_run, workflow_id) == repo_get_by_id(workflows, workflow_id)

\* A choice that knows the snapshot only: no fallback to the live definition.
choose_snapshot_definition(snapshot_run, workflow_id) ==
    IF snapshot_run # None
    THEN IF snapshot_run.workflow_snapshot # <<>>
         THEN rehydrate(snapshot_run.workflow_snapshot)
         ELSE None
    ELSE None

\* Lines 533-546: the definition the trace is resolved against.
choose_definition(snapshot_run, workflow_id) ==
    IF snapshot_run # None
    THEN IF snapshot_run.workflow_snapshot # <<>>
         THEN rehydrate(snapshot_run.workflow_snapshot)
         ELSE repo_get_by_id(workflows, workflow_id)
    ELSE repo_get_by_id(workflows, workflow_id)

\* A mapping that parks cancelled executions as scheduled.
final_status_of_scheduled(state) ==
    CASE state = "SUCCEEDED" -> PyStr(COMPLETED)
      [] state = "FAILED" -> PyStr(FAILED)
      [] state = "CANCELLED" -> PyStr(SCHEDULED)
      [] OTHER -> None

\* Lines 564-570: the status a finished remote execution maps to.
final_status_of(state) ==
    CASE state = "SUCCEEDED" -> PyStr(COMPLETED)
      [] state = "FAILED" -> PyStr(FAILED)
      [] state = "CANCELLED" -> PyStr(CANCELED)
      [] OTHER -> None

\* A lazy status update that writes the status without the completion time.
lazy_status_update_status_only(runs, snapshot_run, execution, update_ok, now) ==
    IF snapshot_run # None
    THEN IF snapshot_run.status = RUNNING /\ final_status_of(execution.state) # None /\ update_ok
         THEN [wrote |-> TRUE,
               runs |-> repo_update(runs, snapshot_run.id,
                  [status |-> final_status_of(execution.state).v])]
         ELSE [wrote |-> FALSE, runs |-> runs]
    ELSE [wrote |-> FALSE, runs |-> runs]

\* A lazy status update that also restamps the start of the run.
lazy_status_update_restamped(runs, snapshot_run, execution, update_ok, now) ==
    IF snapshot_run # None
    THEN IF snapshot_run.status = RUNNING /\ final_status_of(execution.state) # None /\ update_ok
         THEN [wrote |-> TRUE,
               runs |-> repo_update(runs, snapshot_run.id,
                  [status |-> final_status_of(execution.state).v,
                   started_at |-> DateTime(now),
                   completed_at |-> IF execution.end_time # None THEN execution.end_time ELSE DateTime(now)])]
         ELSE [wrote |-> FALSE, runs |-> runs]
    ELSE [wrote |-> FALSE, runs |-> runs]

\* A lazy status update that rewrites the row whatever its status.
lazy_status_update_any_status(runs, snapshot_run, execution, update_ok, now) ==
    IF snapshot_run # None
    THEN IF final_status_of(execution.state) # None /\ update_ok
         THEN [wrote |-> TRUE,
               runs |-> repo_update(runs, snapshot_run.id,
                  [status |-> final_status_of(execution.state).v,
                   completed_at |-> IF execution.end_time # None THEN execution.end_time ELSE DateTime(now)])]
         ELSE [wrote |-> FALSE, runs |-> runs]
    ELSE [wrote |-> FALSE, runs |-> runs]

\* Lines 560-583: the lazy status update: whether the row was written, and
\* the run table afterwards; a failing update is logged and swallowed.
lazy_status_update(runs, snapshot_run, execution, update_ok, now) ==
    IF snapshot_run # None
    THEN IF snapshot_run.status = RUNNING /\ final_status_of(execution.state) # None /\ update_ok
         THEN [wrote |-> TRUE,
               runs |-> repo_update(runs, snapshot_run.id,
                  [status |-> final_status_of(execution.state).v,
                   completed_at |-> IF execution.end_time # None THEN execution.end_time ELSE DateTime(now)])]
         ELSE [wrote |-> FALSE, runs |-> runs]
    ELSE [wrote |-> FALSE, runs |-> runs]

\* The whole method: what it returns or raises, and the run table it leaves.
\* fetch_ok: the step-entry request answered 200; update_ok: the row update
\* of the lazy status update went through.
get_execution_details(workflow_id, execution_id, fetch_ok, update_ok) ==
    LET execution_name ==
            IF ~startswith_projects(execution_id)
            THEN workflow_path(PROJECT_ID, WORKFLOWS_LOCATION, workflow_id) \o <<"executions">> \o execution_id
            ELSE execution_id
        execution == client_get_execution(execution_name)
    IN  IF execution = None
        THEN [raised |-> None, result |-> None, runs |-> workflow_runs, wrote |-> FALSE]
        ELSE
        LET user_inputs == IF "json" \in DOMAIN execution.argument THEN json_loads(execution.argument) ELSE <<>>
            result == IF execution.state = "SUCCEEDED" THEN execution.result ELSE None
            step_entries == IF fetch_ok THEN execution.step_entries ELSE <<>>
            duration == duration_of(execution, clock)
            lookup_id == IF startswith_projects(execution_id) THEN split_last(execution_id) ELSE execution_id[1]
            snapshot_run == repo_get_by_id(workflow_runs, lookup_id)
            workflow_model == choose_definition(snapshot_run, workflow_id)
            basic == [id |-> execution.name,
                      state |-> execution.state,
                      result |-> result,
                      duration |-> duration,
                      error |-> IF execution.error # None THEN execution.error.context ELSE None]
        IN  IF workflow_model = None
            THEN [raised |-> None,
                  result |-> basic @@ [step_entries |-> <<>>],
                  runs |-> workflow_runs, wrote |-> FALSE]
            ELSE
            LET lazy == lazy_status_update(workflow_runs, snapshot_run, execution, update_ok, clock)
            IN  IF Len(workflow_model.steps) = 0
                THEN [raised |-> PyStr("IndexError"), result |-> None, runs |-> lazy.runs, wrote |-> lazy.wrote]
                ELSE [raised |-> None,
                      result |-> basic @@
                          [step_entries |-> formatted_step_entries(workflow_model, user_inputs, execution, step_entries),
                           workflow_definition |-> workflow_dump(workflow_model)],
                      runs |-> lazy.runs, wrote |-> lazy.wrote]

(***************************************************************************)
(* The remote engine's records.                                            *)
(***************************************************************************)
\* An execution as the engine reports it.
Execution(workflow_id, id, argument, state, start_time, end_time, step_entries) ==
    [name |-> workflow_path(PROJECT_ID, WORKFLOWS_LOCATION, workflow_id) \o <<"executions", id>>,
     argument |-> argument,
     state |-> state,
     result |-> IF state = "SUCCEEDED" THEN PyStr("done") ELSE None,
     error |-> IF state = "FAILED" THEN [context |-> PyStr("boom")] ELSE None,
     start_time |-> start_time,
     end_time |-> end_time,
     step_entries |-> step_entries]

\* A step entry of the execution history: the step's name, its state, its
\* times and the variables captured after it.
StepEntry(step_id, body) ==
    [step |-> step_id, state |-> "STATE_SUCCEEDED",
     createTime |-> PyStr("c-" \o step_id), updateTime |-> PyStr("d-" \o step_id),
     variableData |-> [variables |-> ((step_id \o "_result") :> [body |-> body])]]

\* The value a step produces for one of its outputs.
OutputValue(step_id, o) == PyStr(step_id \o "." \o o)

\* The body a step returns when it supplies exactly its declared outputs.
DeclaredBody(step) == [o \in {step.outputs[i] : i \in 1..Len(step.outputs)} |-> OutputValue(step.step_id, o)]

\* The log of a run in which every call step ran once, in list order.
RECURSIVE SyntheticLog(_, _)
SyntheticLog(steps, i) ==
    IF i > Len(steps) THEN <<>>
    ELSE IF steps[i].type = USER_INPUT THEN SyntheticLog(steps, i + 1)
    ELSE <<StepEntry(steps[i].step_id, DeclaredBody(steps[i]))>> \o SyntheticLog(steps, i + 1)

(***************************************************************************)
(* WorkflowService and the workflow controller as a state machine.         *)
(*                                                                         *)
(* Every action is one call, run to its end.  Calls to the remote engine   *)
(* and the inserts / updates the code guards with try/except may fail; the *)
(* choice is an input of the action.                                       *)
(***************************************************************************)
MaxWorkflowIds == 1

MaxExecutionIds == 1

MaxEntries == 1

MaxAssetIds == 1

Users == {1, 2}

\* The users who create workflows; the others only call.
Owners == {1}

\* f"id-{uuid.uuid4()}" and the execution ids of the engine: the n-th draw.
workflow_id_of(n) == "id-" \o ToString(n)

execution_id_of(n) == "e" \o ToString(n)

WorkflowIds == {workflow_id_of(n) : n \in 1..MaxWorkflowIds}

ExecutionIds == {execution_id_of(n) : n \in 1..MaxExecutionIds}

\* WorkflowCreateDto values: a definition, an edit of it, and an empty one.
WorkflowCreateDto(name, description, steps) == [name |-> name, description |-> description, steps |-> steps]

WorkflowDtos ==
    {WorkflowCreateDto("n1", None,
         <<UserInputStep("u", <<"x", "y">>), GenerateImageStep("a", StepOutputReference("u", "x"), <<"x">>)>>),
     WorkflowCreateDto("n2", PyStr("d"),
         <<UserInputStep("u", <<"x", "y">>), GenerateImageStep("a", PyStr("hello"), <<"x">>)>>),
     WorkflowCreateDto("n3", None, <<>>)}

\* Argument maps of an execution.
ExecuteArgs ==
    {[x |-> PyStr("hi"), workspace_id |-> PyStr("7")],
     [x |-> PyStr("hi"), workspace_id |-> PyStr("")]}

ServiceLogEntries == {StepEntry("a", [x |-> OutputValue("a", "x")])}

ServiceInit ==
    /\ workflows = <<>>
    /\ media_items = <<>>
    /\ gcp_workflows = <<>>
    /\ workflow_runs = <<>>
    /\ executions = <<>>
    /\ ids = [workflows |-> 0, executions |-> 0, assets |-> 0]
    /\ resp = [op |-> "none"]
    /\ clock = 0

Init ==
    /\ ServiceInit
    /\ pc = "service"
    /\ input = None
    /\ output = None
    /\ db_lock = 0
    /\ tasks = <<>>

\* A get_workflow that returns the workflow to any user.
get_workflow_any_user(user_id, workflow_id) == repo_get_by_id(workflows, workflow_id)

\* get_workflow: the workflow when the user owns it.
get_workflow(user_id, workflow_id) ==
    LET workflow == repo_get_by_id(workflows, workflow_id)
    IN  IF workflow # None
        THEN IF workflow.user_id = user_id THEN workflow ELSE None
        ELSE None

\* GET /{workflow_id}: the workflow when the user owns it, 404 otherwise.
GetWorkflow ==
    /\ \E user \in Users, workflow_id \in WorkflowIds :
         LET workflow == get_workflow(user, workflow_id)
         IN  resp' = [op |-> "get_workflow", user_id |-> user, workflow_id |-> workflow_id,
                      raised |-> IF workflow = None THEN PyInt(404) ELSE None,
                      result |-> workflow, wrote |-> FALSE, contacted |-> FALSE]
    /\ UNCHANGED <<workflows, gcp_workflows, workflow_runs, executions, ids, clock, media_items, pure_vars>>

\* A create_workflow that leaves the persisted row in place.
rollback_skipped(table, created_workflow) == table

\* The compensating delete of create_workflow (lines 254-258).
rollback_created(table, created_workflow) == repo_delete(table, created_workflow.id)

\* create_workflow: persist, compile, register; roll back and re-raise when
\* the registration fails.
CreateWorkflowWith(dtos) ==
    /\ ids.workflows < MaxWorkflowIds
    /\ \E workflow_dto \in dtos, user \in Owners, registered \in BOOLEAN :
         LET workflow_id == workflow_id_of(ids.workflows + 1)
             created_workflow == WorkflowModel(workflow_id, user, workflow_dto.name, workflow_dto.description,
                                               workflow_dto.steps, DateTime(clock), DateTime(clock))
             stored == repo_create(workflows, created_workflow)
             yaml_output == generate_workflow_yaml(created_workflow)
         IN  IF registered
             THEN /\ workflows' = stored
                  /\ gcp_workflows' = gcp_workflows @@ (workflow_id :> yaml_output)
                  /\ resp' = [op |-> "create_workflow", workflow_id |-> workflow_id, user_id |-> user,
                              raised |-> None, result |-> created_workflow]
             ELSE /\ workflows' = rollback_created(stored, created_workflow)
                  /\ gcp_workflows' = gcp_workflows
                  /\ resp' = [op |-> "create_workflow", workflow_id |-> workflow_id, user_id |-> user,
                              raised |-> PyStr("GoogleAPICallError"), result |-> None]
    /\ ids' = [ids EXCEPT !.workflows = @ + 1]
    /\ UNCHANGED <<workflow_runs, executions, clock, media_items, pure_vars>>

\* POST /: create_workflow on one of the definitions of the service machine.
CreateWorkflow == CreateWorkflowWith(WorkflowDtos)

\* An update_workflow that overwrites the stored row before it compiles and
\* re-registers.
update_workflow_overwrite_first(workflow_id, workflow_dto, user_id, registered, local_ok, now) ==
    LET updated_model == WorkflowModel(workflow_id, user_id, workflow_dto.name, workflow_dto.description,
                                       workflow_dto.steps, None, None)
        yaml_output == generate_workflow_yaml(updated_model)
        overwritten == repo_update(workflows, workflow_id,
                          [user_id |-> user_id, name |-> workflow_dto.name,
                           description |-> workflow_dto.description,
                           steps |-> workflow_dto.steps, updated_at |-> DateTime(now)])
    IN  IF ~local_ok
        THEN [raised |-> PyStr("SQLAlchemyError"), workflows |-> workflows, gcp_workflows |-> gcp_workflows]
        ELSE IF ~(registered /\ workflow_id \in DOMAIN gcp_workflows)
        THEN [raised |-> PyStr("GoogleAPICallError"), workflows |-> overwritten, gcp_workflows |-> gcp_workflows]
        ELSE [raised |-> None, workflows |-> overwritten,
              gcp_workflows |-> [gcp_workflows EXCEPT ![workflow_id] = yaml_output]]

\* update_workflow: build the model from the DTO, compile it, re-register the
\* source under the same id (_update_gcp_workflow), then overwrite the stored
\* row; either call may fail.
update_workflow(workflow_id, workflow_dto, user_id, registered, local_ok, now) ==
    LET updated_model == WorkflowModel(workflow_id, user_id, workflow_dto.name, workflow_dto.description,
                                       workflow_dto.steps, None, None)
        yaml_output == generate_workflow_yaml(updated_model)
        reregistered == [gcp_workflows EXCEPT ![workflow_id] = yaml_output]
    IN  IF ~(registered /\ workflow_id \in DOMAIN gcp_workflows)
        THEN [raised |-> PyStr("GoogleAPICallError"), workflows |-> workflows, gcp_workflows |-> gcp_workflows]
        ELSE IF ~local_ok
        THEN [raised |-> PyStr("SQLAlchemyError"), workflows |-> workflows, gcp_workflows |-> reregistered]
        ELSE [raised |-> None,
              workflows |-> repo_update(workflows, workflow_id,
                               [user_id |-> user_id, name |-> workflow_dto.name,
                                description |-> workflow_dto.description,
                                steps |-> workflow_dto.steps, updated_at |-> DateTime(now)]),
              gcp_workflows |-> reregistered]

\* PUT /{workflow_id}: 404 / 403 checks, then update_workflow.
UpdateWorkflowWith(dtos) ==
    /\ \E workflow_id \in WorkflowIds, workflow_dto \in dtos, user \in Users, registered \in BOOLEAN,
          local_ok \in BOOLEAN :
         LET existing == repo_get_by_id(workflows, workflow_id)
             r == update_workflow(workflow_id, workflow_dto, user, registered, local_ok, clock)
         IN  IF existing = None
             THEN /\ resp' = [op |-> "update_workflow", raised |-> PyInt(404)]
                  /\ UNCHANGED <<workflows, gcp_workflows>>
             ELSE IF existing.user_id # user
             THEN /\ resp' = [op |-> "update_workflow", raised |-> PyInt(403)]
                  /\ UNCHANGED <<workflows, gcp_workflows>>
             ELSE /\ gcp_workflows' = r.gcp_workflows
                  /\ workflows' = r.workflows
                  /\ resp' = [op |-> "update_workflow", workflow_id |-> workflow_id, user_id |-> user,
                              workflow_dto |-> workflow_dto, raised |-> r.raised]
    /\ UNCHANGED <<workflow_runs, executions, ids, clock, media_items, pure_vars>>

\* PUT /{workflow_id} with one of the definitions of the service machine.
UpdateWorkflow == UpdateWorkflowWith(WorkflowDtos)

\* The engine's executions after a workflow was deregistered: its executions
\* are purged with it, or kept.
purge_executions(execs, workflow_id, purge) ==
    IF purge
    THEN [k \in {e \in DOMAIN execs : execs[e].name[6] # workflow_id} |-> execs[k]]
    ELSE execs

\* A deregistration that lets the engine's not-found answer through.
delete_gcp_workflow_strict(registry, workflow_id, remote_ok) ==
    IF ~remote_ok
    THEN [answer |-> "error", raised |-> PyStr("GoogleAPICallError"), registry |-> registry]
    ELSE IF workflow_id \notin DOMAIN registry
    THEN [answer |-> "not_found", raised |-> PyStr("NotFound"), registry |-> registry]
    ELSE [answer |-> "deleted", raised |-> None, registry |-> repo_delete(registry, workflow_id)]

\* A _delete_gcp_workflow that swallows every failure of the engine.
delete_gcp_workflow_lenient(registry, workflow_id, remote_ok) ==
    IF ~remote_ok
    THEN [answer |-> "error", raised |-> None, registry |-> registry]
    ELSE IF workflow_id \notin DOMAIN registry
    THEN [answer |-> "not_found", raised |-> None, registry |-> registry]
    ELSE [answer |-> "deleted", raised |-> None, registry |-> repo_delete(registry, workflow_id)]

\* _delete_gcp_workflow: the engine deletes the registration, or answers
\* not-found (caught: the local deletion proceeds), or fails otherwise.
delete_gcp_workflow(registry, workflow_id, remote_ok) ==
    IF ~remote_ok
    THEN [answer |-> "error", raised |-> PyStr("GoogleAPICallError"), registry |-> registry]
    ELSE IF workflow_id \notin DOMAIN registry
    THEN [answer |-> "not_found", raised |-> None, registry |-> registry]
    ELSE [answer |-> "deleted", raised |-> None, registry |-> repo_delete(registry, workflow_id)]

\* DELETE /{workflow_id}: owner check through get_workflow, then
\* delete_by_id: deregister remotely (not-found tolerated), delete locally;
\* the local delete may fail after the deregistration went through.
DeleteWorkflow ==
    /\ \E workflow_id \in WorkflowIds, user \in Users, remote_ok \in BOOLEAN, purge \in BOOLEAN,
          local_ok \in BOOLEAN :
         LET workflow == get_workflow(user, workflow_id)
             remote == delete_gcp_workflow(gcp_workflows, workflow_id, remote_ok)
         IN  IF workflow = None
             THEN /\ resp' = [op |-> "delete_workflow", workflow_id |-> workflow_id, answer |-> "none",
                              raised |-> PyInt(404)]
                  /\ UNCHANGED <<workflows, gcp_workflows, workflow_runs, executions>>
             ELSE IF remote.raised # None
             THEN /\ resp' = [op |-> "delete_workflow", workflow_id |-> workflow_id, user_id |-> user,
                              answer |-> remote.answer, raised |-> remote.raised]
                  /\ UNCHANGED <<workflows, gcp_workflows, workflow_runs, executions>>
             ELSE /\ gcp_workflows' = remote.registry
                  /\ executions' = IF remote.answer = "deleted"
                                   THEN purge_executions(executions, workflow_id, purge)
                                   ELSE executions
                  /\ IF local_ok
                     THEN /\ workflows' = repo_delete(workflows, workflow_id)
                          /\ workflow_runs' = cascade_delete_runs(workflow_runs, workflow_id)
                          /\ resp' = [op |-> "delete_workflow", workflow_id |-> workflow_id, user_id |-> user,
                                      answer |-> remote.answer, raised |-> None]
                     ELSE /\ UNCHANGED <<workflows, workflow_runs>>
                          /\ resp' = [op |-> "delete_workflow", workflow_id |-> workflow_id, user_id |-> user,
                                      answer |-> remote.answer, raised |-> PyStr("SQLAlchemyError")]
    /\ UNCHANGED <<ids, clock, media_items, pure_vars>>

\* execute_workflow on the state st = [executions, workflow_runs, ids, clock]:
\* look the definition up, start the remote execution, derive the execution
\* id from the answer's name, write the snapshot row, return the id.
execute_workflow(st, workflow_id, args, user_id, accepted, insert_ok) ==
    LET workflow_model == repo_get_by_id(workflows, workflow_id)
    IN  IF workflow_model = None
        THEN [st |-> st, raised |-> PyStr("ValueError"), result |-> None]
        ELSE IF ~(accepted /\ workflow_id \in DOMAIN gcp_workflows)
        THEN [st |-> st, raised |-> PyStr("GoogleAPICallError"), result |-> None]
        ELSE
        LET response == Execution(workflow_id, execution_id_of(st.ids.executions + 1), json_dumps(args),
                                  "ACTIVE", DateTime(st.clock), None, <<>>)
            execution_id == split_last(response.name)
            workspace_id == workspace_id_of(args)
            snap == create_execution_snapshot(st.workflow_runs, execution_id, workflow_id, workflow_model,
                                              user_id, workspace_id, insert_ok, st.clock)
        IN  [st |-> [executions |-> st.executions @@ (execution_id :> response),
                     workflow_runs |-> snap.runs,
                     ids |-> [st.ids EXCEPT !.executions = @ + 1],
                     clock |-> st.clock],
             raised |-> snap.raised,
             result |-> IF snap.raised = None THEN PyStr(execution_id) ELSE None]

ExecuteWorkflow ==
    /\ ids.executions < MaxExecutionIds
    /\ \E workflow_id \in WorkflowIds, args \in ExecuteArgs, user \in Users,
          accepted \in BOOLEAN, insert_ok \in BOOLEAN :
         LET r == execute_workflow([executions |-> executions, workflow_runs |-> workflow_runs,
                                    ids |-> ids, clock |-> clock],
                                   workflow_id, args, user, accepted, insert_ok)
         IN  /\ executions' = r.st.executions
             /\ workflow_runs' = r.st.workflow_runs
             /\ ids' = r.st.ids
             /\ clock' = r.st.clock
             /\ resp' = [op |-> "execute_workflow", workflow_id |-> workflow_id, user_id |-> user,
                         raised |-> r.raised, result |-> r.result]
    /\ UNCHANGED <<workflows, gcp_workflows, media_items, pure_vars>>

\* Binding of a call's keyword arguments to the parameters of
\* execute_workflow(self, workflow_id, args, user): a missing one is a
\* TypeError raised by the call itself.
bind_execute_workflow(kwargs) ==
    IF {"workflow_id", "args", "user"} \subseteq DOMAIN kwargs THEN None ELSE PyStr("TypeError")

\* The Authorization headers a caller sends.
AuthorizationHeaders == {PyStr("Bearer t")}

\* POST /{workflow_id}/workflow-execute: puts the Authorization header into
\* the arguments and calls the service's execute_workflow with workflow_id
\* and args only, without awaiting the result.
WorkflowExecuteEndpoint ==
    /\ \E workflow_id \in WorkflowIds, dto_args \in ExecuteArgs, authorization \in AuthorizationHeaders :
         LET args == dict_set(dto_args, "user_auth_header", authorization)
             kwargs == [workflow_id |-> workflow_id, args |-> args]
             raised == bind_execute_workflow(kwargs)
         IN  resp' = [op |-> "workflow_execute", workflow_id |-> workflow_id, authorization |-> authorization,
                      raised |-> raised,
                      result |-> IF raised = None THEN [execution_id |-> [py |-> "coroutine"]] ELSE None]
    /\ UNCHANGED <<workflows, gcp_workflows, workflow_runs, executions, ids, clock, media_items, pure_vars>>

\* Strings that start with "gs://".
GcsUris == {"gs://b/i.png"}

is_gcs_string(value) == value.py = "str" /\ value.v \in GcsUris

is_gcs_list(value) ==
    /\ value.py = "list"
    /\ Len(value.v) > 0
    /\ is_gcs_string(value.v[1])

\* Rows of a batch call of the service machine: plain arguments, and a
\* storage URI without the workspace id its ingestion needs (the rows whose
\* URIs are ingested are those of SpecBatch).
BatchItems ==
    {[row_index |-> 0, args |-> [x |-> PyStr("hi"), workspace_id |-> PyStr("7")]],
     [row_index |-> 1, args |-> [x |-> PyStr("gs://b/i.png")]]}

\* Requests of one row, and of two rows with distinct indices.
BatchRequests ==
    {<<i>> : i \in BatchItems}
    \cup {<<i, j>> : i \in {r \in BatchItems : r.row_index # 0}, j \in {r \in BatchItems : r.row_index = 0}}

\* ingest_gcs_uri: the asset reference of the asset created for the URI.
asset_reference(uri, asset_id) == PyDict([sourceAssetId |-> PyInt(asset_id), previewUrl |-> uri])

\* process_row on the state st: ingest the storage URIs of the row, then
\* execute; every exception becomes a FAILED result of the row.
\* oc = [ingested, accepted, insert_ok] are the outcomes of the row's calls.
process_row(st, workflow_id, item, user_id, oc) ==
    LET workspace_id == dict_get(item.args, "workspace_id", None)
        gcs_keys == {k \in DOMAIN item.args : is_gcs_string(item.args[k]) \/ is_gcs_list(item.args[k])}
        w_id == IF truthy(workspace_id) THEN to_int_or_none(workspace_id) ELSE None
        failed == [row_index |-> item.row_index, status |-> "FAILED", execution_id |-> None]
    IN  IF gcs_keys # {} /\ (w_id = None \/ ~oc.ingested)
        THEN [st |-> st, result |-> failed]
        ELSE
        LET n == st.ids.assets
            processed_args == [k \in DOMAIN item.args |->
                                  IF is_gcs_string(item.args[k]) THEN asset_reference(item.args[k], n + 1)
                                  ELSE IF is_gcs_list(item.args[k])
                                  THEN PyList([j \in 1..Len(item.args[k].v) |->
                                                  asset_reference(item.args[k].v[j], n + j)])
                                  ELSE item.args[k]]
            st1 == [st EXCEPT !.ids.assets = @ + Cardinality(gcs_keys)]
            r == execute_workflow(st1, workflow_id, processed_args, user_id, oc.accepted, oc.insert_ok)
        IN  IF r.raised # None
            THEN [st |-> r.st, result |-> failed]
            ELSE [st |-> r.st,
                  result |-> [row_index |-> item.row_index, status |-> "SUCCESS", execution_id |-> r.result]]

RECURSIVE batch_rows(_, _, _, _, _, _)
batch_rows(st, workflow_id, items, user_id, ocs, i) ==
    IF i > Len(items) THEN [st |-> st, results |-> <<>>]
    ELSE LET r == process_row(st, workflow_id, items[i], user_id, ocs[i])
             rest == batch_rows(r.st, workflow_id, items, user_id, ocs, i + 1)
         IN  [st |-> rest.st, results |-> <<r.result>> \o rest.results]

\* What may go wrong in one row: nothing, the ingestion, the trigger, the
\* insert of the run row.
RowOutcomes ==
    {[ingested |-> TRUE, accepted |-> TRUE, insert_ok |-> TRUE],
     [ingested |-> FALSE, accepted |-> TRUE, insert_ok |-> TRUE],
     [ingested |-> TRUE, accepted |-> FALSE, insert_ok |-> TRUE],
     [ingested |-> TRUE, accepted |-> TRUE, insert_ok |-> FALSE]}

\* batch_execute_workflow, the rows taken in request order.
BatchExecuteWorkflow ==
    /\ ids.executions < MaxExecutionIds
    /\ ids.assets < MaxAssetIds
    /\ \E workflow_id \in WorkflowIds, items \in BatchRequests, user \in Users :
         /\ \E ocs \in [1..Len(items) -> RowOutcomes] :
              LET r == batch_rows([executions |-> executions, workflow_runs |-> workflow_runs,
                                   ids |-> ids, clock |-> clock],
                                  workflow_id, items, user, ocs, 1)
              IN  /\ r.st.ids.executions <= MaxExecutionIds
                  /\ r.st.ids.assets <= MaxAssetIds
                  /\ executions' = r.st.executions
                  /\ workflow_runs' = r.st.workflow_runs
                  /\ ids' = r.st.ids
                  /\ clock' = r.st.clock
                  /\ resp' = [op |-> "batch_execute_workflow", raised |-> None, result |-> r.results]
    /\ UNCHANGED <<workflows, gcp_workflows, media_items, pure_vars>>

\* The execution ids a caller may pass: the short id, or the full resource
\* name of an execution.
ExecutionNames ==
    {<<e>> : e \in ExecutionIds}
    \cup {workflow_path(PROJECT_ID, WORKFLOWS_LOCATION, w) \o <<"executions", e>> : w \in WorkflowIds, e \in ExecutionIds}

\* GET /{workflow_id}/executions/{execution_id}: owner check through the
\* parent workflow, then get_execution_details.
GetExecution ==
    /\ \E user \in Users, workflow_id \in WorkflowIds, execution_id \in ExecutionNames,
          fetch_ok \in BOOLEAN, update_ok \in BOOLEAN :
         LET workflow == get_workflow(user, workflow_id)
             r == get_execution_details(workflow_id, execution_id, fetch_ok, update_ok)
         IN  IF workflow = None
             THEN /\ resp' = [op |-> "get_execution", user_id |-> user, workflow_id |-> workflow_id,
                              execution_id |-> split_last(execution_id),
                              raised |-> PyInt(404), result |-> None, wrote |-> FALSE,
                              contacted |-> FALSE]
                  /\ UNCHANGED workflow_runs
             ELSE /\ resp' = [op |-> "get_execution", user_id |-> user, workflow_id |-> workflow_id,
                              execution_id |-> split_last(execution_id),
                              raised |-> IF r.raised # None THEN r.raised
                                         ELSE IF r.result = None THEN PyInt(404) ELSE None,
                              result |-> r.result, wrote |-> r.wrote,
                              contacted |-> TRUE]
                  /\ workflow_runs' = r.runs
    /\ UNCHANGED <<workflows, gcp_workflows, executions, ids, clock, media_items, pure_vars>>

\* list_executions: one item per execution of the workflow.
list_executions(workflow_id) ==
    LET parent == workflow_path(PROJECT_ID, WORKFLOWS_LOCATION, workflow_id)
        found == {e \in DOMAIN executions : SubSeq(executions[e].name, 1, 6) = parent}
    IN  [executions |-> {[id |-> split_last(executions[e].name),
                          state |-> executions[e].state,
                          start_time |-> executions[e].start_time,
                          end_time |-> executions[e].end_time,
                          duration |-> duration_of(executions[e], clock),
                          error |-> IF executions[e].error # None THEN executions[e].error.context ELSE None]
                         : e \in found},
         next_page_token |-> ""]

\* GET /{workflow_id}/executions: owner check, then list_executions.
ListExecutions ==
    /\ \E user \in Users, workflow_id \in WorkflowIds :
         LET workflow == get_workflow(user, workflow_id)
         IN  resp' = [op |-> "list_executions", user_id |-> user, workflow_id |-> workflow_id,
                      raised |-> IF workflow = None THEN PyInt(404) ELSE None,
                      result |-> IF workflow = None THEN None ELSE list_executions(workflow_id),
                      contacted |-> workflow # None]
    /\ UNCHANGED <<workflows, gcp_workflows, workflow_runs, executions, ids, clock, media_items, pure_vars>>

\* The remote engine logs a step entry of a running execution.
EngineLogsStep ==
    /\ \E e \in DOMAIN executions, entry \in ServiceLogEntries :
         /\ executions[e].state = "ACTIVE"
         /\ Len(executions[e].step_entries) < MaxEntries
         /\ executions' = [executions EXCEPT ![e].step_entries = Append(@, entry)]
    /\ resp' = [op |-> "engine"]
    /\ UNCHANGED <<workflows, gcp_workflows, workflow_runs, ids, clock, media_items, pure_vars>>

\* The remote engine finishes a running execution.
EngineFinishes ==
    /\ \E e \in DOMAIN executions, state \in {"SUCCEEDED", "FAILED", "CANCELLED"} :
         /\ executions[e].state = "ACTIVE"
         /\ executions' = [executions EXCEPT ![e] =
                [@ EXCEPT !.state = state,
                          !.end_time = DateTime(clock + 1),
                          !.result = IF state = "SUCCEEDED" THEN PyStr("done") ELSE None,
                          !.error = IF state = "FAILED" THEN [context |-> PyStr("boom")] ELSE None]]
    /\ clock' = clock + 1
    /\ resp' = [op |-> "engine"]
    /\ UNCHANGED <<workflows, gcp_workflows, workflow_runs, ids, media_items, pure_vars>>

Next ==
    \/ CreateWorkflow
    \/ GetWorkflow
    \/ UpdateWorkflow
    \/ DeleteWorkflow
    \/ ExecuteWorkflow
    \/ WorkflowExecuteEndpoint
    \/ BatchExecuteWorkflow
    \/ GetExecution
    \/ ListExecutions
    \/ EngineLogsStep
    \/ EngineFinishes

Spec == Init /\ [][Next]_vars

(***************************************************************************)
(* Specification of the compiler as a pure function: any step list of a    *)
(* bounded length is compiled (no operation of the service validates the   *)
(* order of the steps, the uniqueness of their ids or their references).   *)
(***************************************************************************)
CompileSteps == UserInputSteps \cup GenerateImageSteps \cup CropImageSteps \cup GenerateTextSteps

InitCompile ==
    /\ ServiceInit
    /\ pc = "start"
    /\ input \in {[workflow |-> WorkflowModel("id-1", 1, "n", None, steps, 0, 0)] :
                      steps \in SeqsUpTo(CompileSteps, MaxCompileSteps)}
    /\ output = None
    /\ db_lock = 0
    /\ tasks = <<>>

Compile ==
    /\ pc = "start"
    /\ output' = generate_workflow_yaml(input.workflow)
    /\ pc' = "compiled"
    /\ UNCHANGED <<input, service_vars, db_lock, tasks>>

NextCompile == Compile

SpecCompile == InitCompile /\ [][NextCompile]_vars

(***************************************************************************)
(* Specification of the trace reconstructor as a function of the stored    *)
(* definition, the execution's argument and its step log.                  *)
(***************************************************************************)
\* Steps of the traced definitions: user-input steps, and image steps whose
\* prompt is a literal, a reference to the user-input step, to an earlier
\* step, to a later step, or to the step itself.
TraceSteps ==
    {UserInputStep("u", <<"x", "y">>), UserInputStep("a", <<"x", "y">>),
     GenerateImageStep("u", StepOutputReference("u", "x"), <<"x">>),
     GenerateImageStep("a", PyStr("hello"), <<"x">>),
     GenerateImageStep("a", StepOutputReference("u", "x"), <<"x">>),
     GenerateImageStep("a", StepOutputReference("b", "x"), <<"x">>),
     GenerateImageStep("b", StepOutputReference("a", "x"), <<"x">>),
     GenerateImageStep("b", StepOutputReference("u", "y"), <<"x">>)}

\* Entries the engine may log besides those of a complete run: the terminal
\* sentinel, a step the definition does not have, the entry of a step whose
\* upstream step has none, an entry without payload.
LogEntries ==
    {StepEntry(s, [x |-> OutputValue(s, "x")]) : s \in {"end", "zz", "b"}} \cup {[step |-> "a"]}

TraceArgs == [x |-> PyStr("hi"), y |-> PyStr("yo"), user_auth_header |-> PyStr("Bearer t")]

\* The executions read: a running one without run row, a failed one with its
\* run row, and one the engine has not started yet (no argument, no times).
TraceScenarios(w, log) ==
    {[execution |-> Execution("id-1", "e1", json_dumps(TraceArgs), "ACTIVE", DateTime(1), None, log),
      runs |-> <<>>],
     [execution |-> Execution("id-1", "e1", json_dumps(TraceArgs), "FAILED", DateTime(1), DateTime(2), log),
      runs |-> ("e1" :> WorkflowRunModel("e1", "id-1", 1, None, RUNNING, DateTime(1), snapshot_dump(w)))],
     [execution |-> Execution("id-1", "e1", PyStr(""), "QUEUED", None, None, log),
      runs |-> ("e1" :> WorkflowRunModel("e1", "id-1", 1, None, RUNNING, DateTime(1), snapshot_dump(w)))]}

InitTrace ==
    /\ media_items = <<>>
    /\ pc = "start"
    /\ output = None
    /\ db_lock = 0
    /\ tasks = <<>>
    /\ \E steps \in SeqsUpTo(TraceSteps, MaxTraceSteps) :
         LET w == WorkflowModel("id-1", 1, "n", None, steps, DateTime(0), DateTime(0))
         IN  /\ workflows = ("id-1" :> w)
             /\ gcp_workflows = ("id-1" :> generate_workflow_yaml(w))
             /\ input = [workflow |-> w]
             /\ \E log \in {SyntheticLog(steps, 1)} \cup SeqsUpTo(LogEntries, MaxLogLen) :
                  \E sc \in TraceScenarios(w, log) :
                     /\ executions = ("e1" :> sc.execution)
                     /\ workflow_runs = sc.runs
    /\ ids = [workflows |-> 1, executions |-> 1, assets |-> 0]
    /\ resp = [op |-> "none"]
    /\ clock = 3

\* WorkflowService.get_execution_details called for the execution.
ReadTrace ==
    /\ pc = "start"
    /\ \E fetch_ok \in BOOLEAN, update_ok \in BOOLEAN :
         LET r == get_execution_details("id-1", <<"e1">>, fetch_ok, update_ok)
         IN  /\ resp' = [op |-> "get_execution_details", workflow_id |-> "id-1", execution_id |-> <<"e1">>,
                         fetch_ok |-> fetch_ok, raised |-> r.raised, result |-> r.result, wrote |-> r.wrote]
             /\ workflow_runs' = r.runs
             /\ output' = r.result
    /\ pc' = "read"
    /\ UNCHANGED <<workflows, gcp_workflows, executions, ids, clock, input, db_lock, tasks, media_items>>

NextTrace == ReadTrace

SpecTrace == InitTrace /\ [][NextTrace]_vars

(***************************************************************************)
(* Specification of one batch_execute_workflow call at the grain of the    *)
(* event loop: every row is a process_row task, the tasks are suspended at  *)
(* their awaits (the lock, the ingestion, the workflow lookup, the trigger, *)
(* the insert of the run row) and resumed in any order; gather returns the  *)
(* results when every task is done.                                         *)
(***************************************************************************)
MaxBatchRows == 3

\* The argument maps of a row: plain arguments, a storage URI without the
\* workspace id its ingestion needs, a storage URI with it, a list of URIs,
\* a list whose second element only is a storage URI.
BatchRowArgs ==
    {[x |-> PyStr("hi"), workspace_id |-> PyStr("7")],
     [x |-> PyStr("gs://b/i.png")],
     [x |-> PyStr("gs://b/i.png"), workspace_id |-> PyStr("7")],
     [x |-> PyList(<<PyStr("gs://b/i.png"), PyStr("gs://b/i.png")>>), workspace_id |-> PyStr("7")],
     [x |-> PyList(<<PyStr("hi"), PyStr("gs://b/i.png")>>), workspace_id |-> PyStr("7")]}

\* The items of a request; the caller numbers its rows as it likes.
BatchRowRequests ==
    {[i \in 1..Len(a) |-> [row_index |-> 10 * i, args |-> a[i]]] : a \in SeqsUpTo(BatchRowArgs, MaxBatchRows) \ {<<>>}}

\* item.args.items(): the keys in insertion order.
ArgKeys == <<"x", "workspace_id">>

\* BatchItemResultDto
BatchItemResultDto(row_index, status, execution_id, error) ==
    [row_index |-> row_index, status |-> status, execution_id |-> execution_id, error |-> error]

\* The storage URIs of a row still to ingest: key, position in the list
\* (0 for a string value), URI.
RECURSIVE uris_of(_, _)
uris_of(args, k) ==
    IF k > Len(ArgKeys) THEN <<>>
    ELSE IF ArgKeys[k] \notin DOMAIN args THEN uris_of(args, k + 1)
    ELSE LET value == args[ArgKeys[k]]
         IN  IF is_gcs_string(value)
             THEN <<[key |-> ArgKeys[k], pos |-> 0, uri |-> value.v]>> \o uris_of(args, k + 1)
             ELSE IF is_gcs_list(value)
             THEN [j \in 1..Len(value.v) |-> [key |-> ArgKeys[k], pos |-> j, uri |-> value.v[j].v]]
                  \o uris_of(args, k + 1)
             ELSE uris_of(args, k + 1)

\* processed_args once the asset of one URI is there.
with_asset(processed_args, u, asset_id) ==
    IF u.pos = 0
    THEN dict_set(processed_args, u.key, asset_reference(PyStr(u.uri), asset_id))
    ELSE dict_set(processed_args, u.key,
                  PyList((IF u.pos = 1 THEN <<>> ELSE processed_args[u.key].v)
                         \o <<asset_reference(PyStr(u.uri), asset_id)>>))

\* A lock that lets every task in.
lock_ignored(lock) == TRUE

\* asyncio.Lock: acquire goes through when the lock is not held.
lock_free(lock) == lock = 0

\* A gather that returns the results last row first.
gather_reversed(ts) == [i \in DOMAIN ts |-> ts[Len(ts) + 1 - i].result]

\* asyncio.gather(*tasks): the results in the order of the tasks.
gather(ts) == [i \in DOMAIN ts |-> ts[i].result]

InitBatch ==
    /\ media_items = <<>>
    /\ workflows = ("id-1" :> WorkflowModel("id-1", 1, "n1", None,
                                  <<UserInputStep("u", <<"x", "y">>),
                                    GenerateImageStep("a", StepOutputReference("u", "x"), <<"x">>)>>,
                                  DateTime(0), DateTime(0)))
    /\ gcp_workflows = ("id-1" :> generate_workflow_yaml(workflows["id-1"]))
    /\ workflow_runs = <<>>
    /\ executions = <<>>
    /\ ids = [workflows |-> 1, executions |-> 0, assets |-> 0]
    /\ resp = [op |-> "none"]
    /\ clock = 1
    /\ pc = "batch"
    /\ input \in {[workflow_id |-> "id-1", items |-> items, user_id |-> 1] : items \in BatchRowRequests}
    /\ output = None
    /\ db_lock = 0
    /\ tasks = [i \in 1..Len(input.items) |->
                  [pc |-> "start", todo |-> <<>>, processed_args |-> <<>>, workflow_model |-> None,
                   execution_id |-> None, result |-> None]]

\* The task's result is there: it is done.
RowReturns(i, result) ==
    tasks' = [tasks EXCEPT ![i].pc = "done", ![i].result = result]

\* A task runs from its start to its first await: the row fails for want of
\* a workspace id, or waits for the lock, or (no storage URI) calls
\* execute_workflow, whose workflow lookup is then in progress.
RowStarts(i) ==
    /\ pc = "batch"
    /\ tasks[i].pc = "start"
    /\ LET item == input.items[i]
           workspace_id == dict_get(item.args, "workspace_id", None)
           todo == uris_of(item.args, 1)
       IN  IF todo = <<>>
           THEN tasks' = [tasks EXCEPT ![i].pc = "lookup", ![i].processed_args = item.args]
           ELSE IF ~truthy(workspace_id)
           THEN RowReturns(i, BatchItemResultDto(item.row_index, "FAILED", None,
                    PyStr("Invalid GCS URI in '" \o todo[1].key \o "': No workspace_id provided for GCS ingestion.")))
           ELSE IF to_int_or_none(workspace_id) = None
           THEN RowReturns(i, BatchItemResultDto(item.row_index, "FAILED", None,
                    PyStr("Invalid GCS URI in '" \o todo[1].key \o "': invalid literal for int()")))
           ELSE tasks' = [tasks EXCEPT ![i].pc = "want_lock", ![i].todo = todo,
                                       ![i].processed_args = item.args]
    /\ UNCHANGED <<service_vars, pc, input, output, db_lock>>

\* async with db_lock: the task gets the lock and create_from_gcs_uri starts.
RowAcquiresLock(i) ==
    /\ pc = "batch"
    /\ tasks[i].pc = "want_lock"
    /\ lock_free(db_lock)
    /\ db_lock' = i
    /\ tasks' = [tasks EXCEPT ![i].pc = "ingesting"]
    /\ UNCHANGED <<service_vars, pc, input, output>>

\* create_from_gcs_uri returns the asset or raises; the lock is released
\* either way.  After the last URI the task calls execute_workflow.
RowIngested(i) ==
    /\ pc = "batch"
    /\ tasks[i].pc = "ingesting"
    /\ db_lock' = 0
    /\ \E created \in BOOLEAN :
         IF created
         THEN /\ ids' = [ids EXCEPT !.assets = @ + 1]
              /\ tasks' = [tasks EXCEPT
                    ![i].processed_args = with_asset(@, tasks[i].todo[1], ids.assets + 1),
                    ![i].todo = Tail(@),
                    ![i].pc = IF Len(tasks[i].todo) = 1 THEN "lookup" ELSE "want_lock"]
         ELSE /\ ids' = ids
              /\ RowReturns(i, BatchItemResultDto(input.items[i].row_index, "FAILED", None,
                     PyStr("Invalid GCS URI in '" \o tasks[i].todo[1].key \o "': ingestion failed")))
    /\ UNCHANGED <<workflows, gcp_workflows, workflow_runs, executions, resp, clock, pc, input, output, media_items>>

\* execute_workflow, get_by_id returned: the trigger is sent, or the row
\* fails because the workflow is gone.
RowLookedUp(i) ==
    /\ pc = "batch"
    /\ tasks[i].pc = "lookup"
    /\ LET workflow_model == repo_get_by_id(workflows, input.workflow_id)
       IN  IF workflow_model = None
           THEN RowReturns(i, BatchItemResultDto(input.items[i].row_index, "FAILED", None,
                    PyStr("Workflow " \o input.workflow_id \o " not found")))
           ELSE tasks' = [tasks EXCEPT ![i].pc = "triggering", ![i].workflow_model = workflow_model]
    /\ UNCHANGED <<service_vars, pc, input, output, db_lock>>

\* create_execution answered: the execution exists and the insert of the run
\* row starts, or the row fails with the engine's error.
RowTriggered(i) ==
    /\ pc = "batch"
    /\ tasks[i].pc = "triggering"
    /\ \E accepted \in BOOLEAN :
         IF accepted /\ input.workflow_id \in DOMAIN gcp_workflows
         THEN LET response == Execution(input.workflow_id, execution_id_of(ids.executions + 1),
                                        json_dumps(tasks[i].processed_args), "ACTIVE", DateTime(clock), None, <<>>)
                  execution_id == split_last(response.name)
              IN  /\ executions' = executions @@ (execution_id :> response)
                  /\ ids' = [ids EXCEPT !.executions = @ + 1]
                  /\ tasks' = [tasks EXCEPT ![i].pc = "inserting", ![i].execution_id = PyStr(execution_id)]
         ELSE /\ RowReturns(i, BatchItemResultDto(input.items[i].row_index, "FAILED", None,
                     PyStr("GoogleAPICallError")))
              /\ UNCHANGED <<executions, ids>>
    /\ UNCHANGED <<workflows, gcp_workflows, workflow_runs, resp, clock, pc, input, output, db_lock, media_items>>

\* _create_execution_snapshot is through (a failure is swallowed):
\* execute_workflow returns the execution id and the row succeeds.
RowSnapshotted(i) ==
    /\ pc = "batch"
    /\ tasks[i].pc = "inserting"
    /\ \E insert_ok \in BOOLEAN :
         workflow_runs' = create_execution_snapshot(workflow_runs, tasks[i].execution_id.v, input.workflow_id,
                              tasks[i].workflow_model, input.user_id,
                              workspace_id_of(tasks[i].processed_args), insert_ok, clock).runs
    /\ RowReturns(i, BatchItemResultDto(input.items[i].row_index, "SUCCESS", tasks[i].execution_id, None))
    /\ UNCHANGED <<workflows, gcp_workflows, executions, ids, resp, clock, pc, input, output, db_lock, media_items>>

\* Every task is done: the call returns the gathered results.
BatchReturns ==
    /\ pc = "batch"
    /\ \A i \in DOMAIN tasks : tasks[i].pc = "done"
    /\ output' = gather(tasks)
    /\ resp' = [op |-> "batch_execute_workflow", raised |-> None]
    /\ pc' = "returned"
    /\ UNCHANGED <<workflows, gcp_workflows, workflow_runs, executions, ids, clock, input, db_lock, tasks, media_items>>

NextBatch ==
    \/ \E i \in DOMAIN tasks : RowStarts(i)
    \/ \E i \in DOMAIN tasks : RowAcquiresLock(i)
    \/ \E i \in DOMAIN tasks : RowIngested(i)
    \/ \E i \in DOMAIN tasks : RowLookedUp(i)
    \/ \E i \in DOMAIN tasks : RowTriggered(i)
    \/ \E i \in DOMAIN tasks : RowSnapshotted(i)
    \/ BatchReturns

SpecBatch == InitBatch /\ [][NextBatch]_vars

(***************************************************************************)
(* Specification of saving: create_workflow and update_workflow on any     *)
(* step list of a bounded length, in any order of its steps                 *)
(* (WorkflowBase.steps is a plain List[WorkflowStep]: no validator looks   *)
(* at the order of the steps or at their references).                      *)
(***************************************************************************)
MaxSaveSteps == 2

SaveSteps ==
    {UserInputStep("u", <<"x", "y">>),
     GenerateImageStep("a", StepOutputReference("u", "x"), <<"x">>),
     GenerateImageStep("b", StepOutputReference("a", "x"), <<"x">>)}

SaveDtos == {WorkflowCreateDto("n", None, steps) : steps \in SeqsUpTo(SaveSteps, MaxSaveSteps)}

InitSave ==
    /\ ServiceInit
    /\ pc = "save"
    /\ input = None
    /\ output = None
    /\ db_lock = 0
    /\ tasks = <<>>

NextSave ==
    \/ CreateWorkflowWith(SaveDtos)
    \/ UpdateWorkflowWith(SaveDtos)

SpecSave == InitSave /\ [][NextSave]_vars

(***************************************************************************)
(* Workflows executor (workflows_executor_service.py): one request to one  *)
(* of the six endpoints, at the granularity of its awaits.  clock is the   *)
(* event loop's time in seconds; what the downstream endpoints answer is   *)
(* the environment's choice at each request.                               *)
(***************************************************************************)
ExecutorEndpoints ==
    {"generate_text", "generate_image", "edit_image", "generate_video", "virtual_try_on", "generate_audio"}

\* The routes the workflows-executor router registers, as the URLs the
\* engine posts to (the executor URL ends with the router's prefix).
ExecutorRoutes == {BACKEND_EXECUTOR_URL \o "/" \o endpoint : endpoint \in ExecutorEndpoints}

\* Poll configuration of _poll_job_status.
initial_delay == 2

poll_interval == 5

timeout == 300

\* How long a downstream GET may take, in seconds.
MaxLatency == 1

HTTPException(status_code, detail) == [status_code |-> status_code, detail |-> detail, body |-> None]

\* The 200 response carrying what the handler returned.
Returned(body) == [status_code |-> 200, detail |-> "", body |-> body]

\* What each polling handler returns once _poll_job_status returned:
\* generate_audio ends after the poll without a return statement.
handler_result(endpoint, media_id) ==
    CASE endpoint = "generate_image" -> PyDict([generated_image |-> PyInt(media_id)])
      [] endpoint = "edit_image" -> PyDict([edited_image |-> PyInt(media_id)])
      [] endpoint = "generate_video" -> PyDict([generated_video |-> PyInt(media_id)])
      [] endpoint = "virtual_try_on" -> PyDict([generated_image |-> PyInt(media_id)])
      [] endpoint = "generate_audio" -> None

\* The detail of the 500 raised when the submission answered without an id.
no_id_detail(endpoint) ==
    CASE endpoint = "generate_image" -> "Couldn't create image"
      [] endpoint = "edit_image" -> "Couldn't edit image"
      [] endpoint = "generate_video" -> "Couldn't create video"
      [] endpoint = "virtual_try_on" -> "Couldn't create VTO image"
      [] endpoint = "generate_audio" -> "Couldn't create audio"

\* A poll that takes a failed job for one still in progress.
poll_response_failed_ignored(status_code, status) ==
    IF status_code # 200 THEN [outcome |-> "raise", exc |-> HTTPException(status_code, "Polling error")]
    ELSE IF status = "completed" THEN [outcome |-> "return", exc |-> None]
    ELSE [outcome |-> "sleep", exc |-> None]

\* One iteration's reading of the GET response in _poll_job_status.
poll_response(status_code, status) ==
    IF status_code # 200 THEN [outcome |-> "raise", exc |-> HTTPException(status_code, "Polling error")]
    ELSE IF status = "completed" THEN [outcome |-> "return", exc |-> None]
    ELSE IF status = "failed"
    THEN [outcome |-> "raise", exc |-> HTTPException(500, "Image generation failed")]
    ELSE [outcome |-> "sleep", exc |-> None]

\* A timeout test that already fires when exactly the timeout has elapsed.
timed_out_inclusive(current_time, start_time) == current_time - start_time >= timeout

\* The loop's timeout test.
timed_out(current_time, start_time) == current_time - start_time > timeout

\* What the last GET of the loop brought: the status code and, under 200,
\* the status of the media item; NoAnswer when the GET raised (or before the
\* first GET).
PollAnswer(status_code, status) ==
    [status_code |-> status_code, status |-> IF status_code = 200 THEN status ELSE ""]

NoAnswer == [status_code |-> 0, status |-> ""]

ExecutorRequests ==
    {[endpoint |-> e, person_image |-> p] : e \in ExecutorEndpoints, p \in BOOLEAN}

InitExecutor ==
    /\ ServiceInit
    /\ pc = "request"
    /\ input \in ExecutorRequests
    /\ output = None
    /\ db_lock = 0
    /\ tasks = <<[media_id |-> 0, start_time |-> 0, polls |-> 0, observed |-> "none", last |-> NoAnswer]>>

Responds(response) ==
    /\ output' = response
    /\ pc' = "responded"

\* generate_text: the model's stream is read to its end and the text is
\* returned; the client call may raise.
GenerateText ==
    /\ pc = "request"
    /\ input.endpoint = "generate_text"
    /\ \E streamed \in BOOLEAN :
          Responds(IF streamed THEN Returned(PyDict([generated_text |-> PyStr("text")]))
                   ELSE HTTPException(500, "Internal Server Error"))
    /\ UNCHANGED <<service_vars, input, db_lock, tasks>>

\* The five other handlers up to their call of _poll_job_status: the job is
\* submitted with a POST; a non-200 answer or an answer without id raises.
SubmitJob ==
    /\ pc = "request"
    /\ input.endpoint # "generate_text"
    /\ IF input.endpoint = "virtual_try_on" /\ ~input.person_image
       THEN /\ Responds(HTTPException(400, "Person image is required for Virtual Try-On"))
            /\ UNCHANGED tasks
       ELSE \E status_code \in {200, 503}, id \in {0, 1} :
               IF status_code # 200
               THEN /\ Responds(HTTPException(status_code, "Backend error"))
                    /\ UNCHANGED tasks
               ELSE IF id = 0
               THEN /\ Responds(HTTPException(500, no_id_detail(input.endpoint)))
                    /\ UNCHANGED tasks
               ELSE /\ tasks' = [tasks EXCEPT ![1].media_id = id]
                    /\ pc' = "initial_delay"
                    /\ UNCHANGED output
    /\ UNCHANGED <<service_vars, input, db_lock>>

\* await asyncio.sleep(initial_delay); start_time = loop.time().
PollInitialDelay ==
    /\ pc = "initial_delay"
    /\ clock' = clock + initial_delay
    /\ tasks' = [tasks EXCEPT ![1].start_time = clock + initial_delay]
    /\ pc' = "loop"
    /\ UNCHANGED <<workflows, gcp_workflows, workflow_runs, executions, ids, resp, input, output, db_lock, media_items>>

\* One iteration of the while loop up to its sleep: the timeout test, then
\* the GET and the reading of its answer; an exception of the GET that is
\* not an HTTPException is logged and the loop goes on.
PollIteration ==
    /\ pc = "loop"
    /\ IF timed_out(clock, tasks[1].start_time)
       THEN /\ Responds(HTTPException(504, "Image generation timed out"))
            /\ UNCHANGED <<clock, tasks>>
       ELSE \E latency \in 0..MaxLatency, answered \in BOOLEAN, status_code \in {200, 503},
               status \in {"processing", "completed", "failed"} :
               /\ clock' = clock + latency
               /\ IF ~answered
                  THEN /\ tasks' = [tasks EXCEPT ![1].polls = @ + 1, ![1].last = NoAnswer]
                       /\ pc' = "sleep"
                       /\ UNCHANGED output
                  ELSE LET r == poll_response(status_code, status)
                           seen == IF status_code = 200 THEN status ELSE tasks[1].observed
                       IN  /\ tasks' = [tasks EXCEPT ![1].polls = @ + 1, ![1].observed = seen,
                                                   ![1].last = PollAnswer(status_code, status)]
                           /\ CASE r.outcome = "raise" -> Responds(r.exc)
                                [] r.outcome = "return" ->
                                      Responds(Returned(handler_result(input.endpoint, tasks[1].media_id)))
                                [] r.outcome = "sleep" -> pc' = "sleep" /\ UNCHANGED output
    /\ UNCHANGED <<workflows, gcp_workflows, workflow_runs, executions, ids, resp, input, db_lock, media_items>>

\* await asyncio.sleep(poll_interval).
PollSleeps ==
    /\ pc = "sleep"
    /\ clock' = clock + poll_interval
    /\ pc' = "loop"
    /\ UNCHANGED <<workflows, gcp_workflows, workflow_runs, executions, ids, resp, input, output, db_lock, tasks, media_items>>

NextExecutor ==
    \/ GenerateText
    \/ SubmitJob
    \/ PollInitialDelay
    \/ PollIteration
    \/ PollSleeps

SpecExecutor == InitExecutor /\ [][NextExecutor]_vars

\* The request's coroutine is resumed whenever it can run: every sleep ends
\* and every downstream request returns or fails.
SpecExecutorLive == SpecExecutor /\ WF_vars(NextExecutor)

(***************************************************************************)
(* One execute_workflow call and one update request of the same workflow,  *)
(* each a coroutine of the same event loop, resumed at its awaits in any   *)
(* order.  tasks[1] holds the locals of execute_workflow, tasks[2] those   *)
(* of the update endpoint.  The engine starts an execution on the source   *)
(* registered at that moment and keeps it as the execution's revision.     *)
(***************************************************************************)
\* The definitions the update may bring.
RaceDtos == {dto \in WorkflowDtos : dto.steps # <<>>}

\* An execution together with the revision of the workflow the engine runs
\* for it.
ExecutionOfRevision(execution, source) ==
    [f \in DOMAIN execution \cup {"workflow_revision"} |->
        IF f = "workflow_revision" THEN source ELSE execution[f]]

InitRace ==
    /\ media_items = <<>>
    /\ workflows = ("id-1" :> WorkflowModel("id-1", 1, "n1", None,
                                  <<UserInputStep("u", <<"x", "y">>),
                                    GenerateImageStep("a", StepOutputReference("u", "x"), <<"x">>)>>,
                                  DateTime(0), DateTime(0)))
    /\ gcp_workflows = ("id-1" :> generate_workflow_yaml(workflows["id-1"]))
    /\ workflow_runs = <<>>
    /\ executions = <<>>
    /\ ids = [workflows |-> 1, executions |-> 0, assets |-> 0]
    /\ resp = [op |-> "none"]
    /\ clock = 1
    /\ pc = "race"
    /\ input \in {[workflow_id |-> "id-1", args |-> args, workflow_dto |-> dto, user_id |-> 1] :
                     args \in ExecuteArgs, dto \in RaceDtos}
    /\ output = None
    /\ db_lock = 0
    /\ tasks = <<[pc |-> "lookup", workflow_model |-> None, execution_id |-> None, raised |-> None],
                 [pc |-> "lookup", raised |-> None]>>

\* execute_workflow, get_by_id returned: the trigger is sent, or ValueError.
ExecuteLookedUp ==
    /\ pc = "race"
    /\ tasks[1].pc = "lookup"
    /\ LET workflow_model == repo_get_by_id(workflows, input.workflow_id)
       IN  IF workflow_model = None
           THEN tasks' = [tasks EXCEPT ![1].pc = "done", ![1].raised = PyStr("ValueError")]
           ELSE tasks' = [tasks EXCEPT ![1].pc = "triggering", ![1].workflow_model = workflow_model]
    /\ UNCHANGED <<service_vars, pc, input, output, db_lock>>

\* create_execution answered: the engine started the execution on the
\* source registered now, or refused.
ExecuteTriggered ==
    /\ pc = "race"
    /\ tasks[1].pc = "triggering"
    /\ \E accepted \in BOOLEAN :
         IF accepted /\ input.workflow_id \in DOMAIN gcp_workflows
         THEN LET response == Execution(input.workflow_id, execution_id_of(ids.executions + 1),
                                        json_dumps(input.args), "ACTIVE", DateTime(clock), None, <<>>)
                  execution_id == split_last(response.name)
              IN  /\ executions' = executions @@
                        (execution_id :> ExecutionOfRevision(response, gcp_workflows[input.workflow_id]))
                  /\ ids' = [ids EXCEPT !.executions = @ + 1]
                  /\ tasks' = [tasks EXCEPT ![1].pc = "inserting", ![1].execution_id = PyStr(execution_id)]
         ELSE /\ tasks' = [tasks EXCEPT ![1].pc = "done", ![1].raised = PyStr("GoogleAPICallError")]
              /\ UNCHANGED <<executions, ids>>
    /\ UNCHANGED <<workflows, gcp_workflows, workflow_runs, resp, clock, pc, input, output, db_lock, media_items>>

\* _create_execution_snapshot is through: execute_workflow returns the id.
ExecuteSnapshotted ==
    /\ pc = "race"
    /\ tasks[1].pc = "inserting"
    /\ \E insert_ok \in BOOLEAN :
         workflow_runs' = create_execution_snapshot(workflow_runs, tasks[1].execution_id.v, input.workflow_id,
                              tasks[1].workflow_model, input.user_id,
                              workspace_id_of(input.args), insert_ok, clock).runs
    /\ tasks' = [tasks EXCEPT ![1].pc = "done"]
    /\ UNCHANGED <<workflows, gcp_workflows, executions, ids, resp, clock, pc, input, output, db_lock, media_items>>

\* The update endpoint, get_by_id returned: the 404 / 403 checks, then
\* update_workflow compiles the new definition and re-registers it
\* (_update_gcp_workflow is a blocking call) and the overwrite of the row is
\* awaited.
UpdateRegisters ==
    /\ pc = "race"
    /\ tasks[2].pc = "lookup"
    /\ \E registered \in BOOLEAN :
         LET existing_workflow == repo_get_by_id(workflows, input.workflow_id)
             updated_model == WorkflowModel(input.workflow_id, input.user_id, input.workflow_dto.name,
                                            input.workflow_dto.description, input.workflow_dto.steps, None, None)
             yaml_output == generate_workflow_yaml(updated_model)
         IN  IF existing_workflow = None
             THEN /\ tasks' = [tasks EXCEPT ![2].pc = "done", ![2].raised = PyInt(404)]
                  /\ UNCHANGED gcp_workflows
             ELSE IF existing_workflow.user_id # input.user_id
             THEN /\ tasks' = [tasks EXCEPT ![2].pc = "done", ![2].raised = PyInt(403)]
                  /\ UNCHANGED gcp_workflows
             ELSE IF ~(registered /\ input.workflow_id \in DOMAIN gcp_workflows)
             THEN /\ tasks' = [tasks EXCEPT ![2].pc = "done", ![2].raised = PyStr("GoogleAPICallError")]
                  /\ UNCHANGED gcp_workflows
             ELSE /\ gcp_workflows' = [gcp_workflows EXCEPT ![input.workflow_id] = yaml_output]
                  /\ tasks' = [tasks EXCEPT ![2].pc = "storing"]
    /\ UNCHANGED <<workflows, workflow_runs, executions, ids, resp, clock, pc, input, output, db_lock, media_items>>

\* workflow_repository.update returned or raised.
UpdateStored ==
    /\ pc = "race"
    /\ tasks[2].pc = "storing"
    /\ \E local_ok \in BOOLEAN :
         IF local_ok
         THEN /\ workflows' = repo_update(workflows, input.workflow_id,
                                 [user_id |-> input.user_id, name |-> input.workflow_dto.name,
                                  description |-> input.workflow_dto.description,
                                  steps |-> input.workflow_dto.steps, updated_at |-> DateTime(clock)])
              /\ tasks' = [tasks EXCEPT ![2].pc = "done"]
         ELSE /\ workflows' = workflows
              /\ tasks' = [tasks EXCEPT ![2].pc = "done", ![2].raised = PyStr("SQLAlchemyError")]
    /\ UNCHANGED <<gcp_workflows, workflow_runs, executions, ids, resp, clock, pc, input, output, db_lock, media_items>>

NextRace ==
    \/ ExecuteLookedUp
    \/ ExecuteTriggered
    \/ ExecuteSnapshotted
    \/ UpdateRegisters
    \/ UpdateStored

SpecRace == InitRace /\ [][NextRace]_vars

(***************************************************************************)
(* An image generation job (images/imagen_service.py):                     *)
(* start_image_generation_job stores the placeholder media item and        *)
(* submits _process_image_in_background, whose steps are the awaits of     *)
(* _async_worker.  tasks[1] holds the worker's locals.  Every call the     *)
(* worker makes outside the process (the prompt rewriting, the lookups,    *)
(* the generation) either returns or raises.                               *)
(***************************************************************************)
\* JobStatusEnum
PROCESSING == "processing"

JOB_COMPLETED == "completed"

JOB_FAILED == "failed"

\* The generation models: one of the Gemini image previews, one Imagen model.
GenerationModels == {"gemini-2.5-flash-image-preview", "imagen-4.0"}

GeminiImageModels == {"gemini-2.5-flash-image-preview"}

\* The attempts of the loop around generate_images / edit_image.
Attempts == 3

\* CreateImagenDto: the model, the source assets named, how many images.
CreateImagenDtos ==
    {[generation_model |-> m, source_asset_ids |-> a, number_of_media |-> n] :
        m \in GenerationModels, a \in {<<>>, <<5>>}, n \in {1, 2}}

\* media_repo.update of the row's status and error message.
media_update(table, media_item_id, status, error_message) ==
    [table EXCEPT ![media_item_id] = [@ EXCEPT !.status = status, !.error_message = error_message]]

InitImageJob ==
    /\ ServiceInit
    /\ pc = "request"
    /\ input \in CreateImagenDtos
    /\ output = None
    /\ db_lock = 0
    /\ tasks = <<[attempt |-> 0, reference_images |-> 0, generated |-> 0]>>

\* The outer except of _process_image_in_background: the failure is logged
\* and the function returns.
WorkerLogsAndReturns == pc' = "worker_done"

\* start_image_generation_job: the placeholder row with status processing is
\* created, the worker is submitted, the placeholder is returned.
StartImageGenerationJob ==
    /\ pc = "request"
    /\ media_items' = (1 :> [id |-> 1, model |-> input.generation_model, status |-> PROCESSING,
                             error_message |-> None, gcs_uris |-> 0])
    /\ output' = media_items'[1]
    /\ pc' = "queued"
    /\ UNCHANGED <<workflows, gcp_workflows, workflow_runs, executions, ids, resp, clock, input, db_lock, tasks>>

\* The worker runs: logging, the event loop, the database session and the
\* GenAI client are set up, then the prompt rewriting is awaited.
WorkerStarts ==
    /\ pc = "queued"
    /\ pc' = "enhance_prompt"
    /\ UNCHANGED <<service_vars, input, output, db_lock, tasks>>

\* enhance_prompt_from_dto returned or raised (it is awaited before the
\* inner try).
PromptEnhanced ==
    /\ pc = "enhance_prompt"
    /\ \E enhanced \in BOOLEAN :
         IF enhanced
         THEN pc' = IF input.source_asset_ids # <<>> THEN "source_assets" ELSE "generate"
         ELSE WorkerLogsAndReturns
    /\ UNCHANGED <<service_vars, input, output, db_lock, tasks>>

\* The loop over source_asset_ids: get_by_id found the asset, found none
\* (a warning) or raised (also before the inner try).
SourceAssetsLookedUp ==
    /\ pc = "source_assets"
    /\ \E answer \in {"found", "missing", "raised"} :
         CASE answer = "found" -> /\ tasks' = [tasks EXCEPT ![1].reference_images = Len(input.source_asset_ids)]
                                  /\ pc' = "generate"
           [] answer = "missing" -> /\ tasks' = tasks
                                    /\ pc' = "generate"
           [] answer = "raised" -> /\ tasks' = tasks
                                   /\ WorkerLogsAndReturns
    /\ UNCHANGED <<service_vars, input, output, db_lock>>

\* The inner except: the row is set to failed with the error's text.
GenerationFails(error_message) ==
    /\ media_items' = media_update(media_items, 1, JOB_FAILED, PyStr(error_message))
    /\ pc' = "worker_done"

\* One generation call inside the inner try.  The Gemini previews are one
\* gather of number_of_media calls; the Imagen models are called in a loop of
\* three attempts that sleeps and goes on after a 429 on the first two.  No
\* image at all sets the row to failed and returns.
Generates ==
    /\ pc = "generate"
    /\ \E answer \in {"images", "nothing", "429", "error"} :
         CASE answer = "images" ->
                 /\ tasks' = [tasks EXCEPT ![1].generated = input.number_of_media]
                 /\ pc' = "save"
                 /\ UNCHANGED media_items
           [] answer = "nothing" ->
                 /\ media_items' = media_update(media_items, 1, JOB_FAILED, PyStr("No images generated"))
                 /\ pc' = "worker_done"
                 /\ UNCHANGED tasks
           [] answer = "429" ->
                 IF input.generation_model \notin GeminiImageModels /\ tasks[1].attempt < Attempts - 1
                 THEN /\ tasks' = [tasks EXCEPT ![1].attempt = @ + 1]
                      /\ UNCHANGED <<pc, media_items>>
                 ELSE /\ GenerationFails("429")
                      /\ UNCHANGED tasks
           [] answer = "error" ->
                 /\ GenerationFails("error")
                 /\ UNCHANGED tasks
    /\ UNCHANGED <<workflows, gcp_workflows, workflow_runs, executions, ids, resp, clock, input, output, db_lock>>

\* The unified processing (upscaling, thumbnails) and the update of the
\* row to completed; an exception on the way is caught by the inner except.
Saves ==
    /\ pc = "save"
    /\ \E processed \in BOOLEAN :
         IF processed
         THEN /\ media_items' = [media_update(media_items, 1, JOB_COMPLETED, None)
                                    EXCEPT ![1].gcs_uris = tasks[1].generated]
              /\ pc' = "worker_done"
         ELSE GenerationFails("error")
    /\ UNCHANGED <<workflows, gcp_workflows, workflow_runs, executions, ids, resp, clock, input, output, db_lock, tasks>>

NextImageJob ==
    \/ StartImageGenerationJob
    \/ WorkerStarts
    \/ PromptEnhanced
    \/ SourceAssetsLookedUp
    \/ Generates
    \/ Saves

SpecImageJob == InitImageJob /\ [][NextImageJob]_vars

\* The executor runs the submitted worker and every call of the worker
\* returns or raises.
SpecImageJobLive == SpecImageJob /\ WF_vars(NextImageJob)

(***************************************************************************)
(* C1                                                                      *)
(***************************************************************************)
\* Indices of the non-user-input steps, in list order.
RECURSIVE CallStepIndices(_, _)
CallStepIndices(steps, i) ==
    IF i > Len(steps) THEN <<>>
    ELSE IF steps[i].type = USER_INPUT THEN CallStepIndices(steps, i + 1)
    ELSE <<i>> \o CallStepIndices(steps, i + 1)

UserInputIds(steps) == {steps[i].step_id : i \in {j \in 1..Len(steps) : steps[j].type = USER_INPUT}}

\* The rewriting the claim states: args.o for a reference to a user-input
\* step, s_result.body.o for any other, sequences element by element.
RECURSIVE ClaimedRewrite(_, _)
ClaimedRewrite(value, uids) ==
    CASE value.py = "StepOutputReference" ->
            IF value.step \in uids
            THEN PyStr("${args." \o value.output \o "}")
            ELSE PyStr("${" \o value.step \o "_result.body." \o value.output \o "}")
      [] value.py = "list" ->
            PyList([i \in 1..Len(value.v) |-> ClaimedRewrite(value.v[i], uids)])
      [] OTHER -> model_dump(value)

\* C1: for every non-user-input step and every input field of it, the compiled
\* call body holds the field's value with each step-output reference
\* {step: s, output: o} rewritten to ${args.o} when s is the id of the
\* user-input step and to ${s_result.body.o} otherwise, at the top level and
\* inside sequences (same length, same order).
C1_ReferenceResolution ==
    pc = "compiled" =>
        LET steps == input.workflow.steps
            idx == CallStepIndices(steps, 1)
        IN  /\ Len(output.main.steps) = Len(idx)
            /\ \A k \in 1..Len(idx) :
                 \A f \in DOMAIN steps[idx[k]].inputs :
                    output.main.steps[k].args.body.inputs[f]
                        = ClaimedRewrite(steps[idx[k]].inputs[f], UserInputIds(steps))

(***************************************************************************)
(* C2                                                                      *)
(***************************************************************************)
\* The step-output references inside an input value.
RECURSIVE RefsOf(_)
RefsOf(value) ==
    CASE value.py = "StepOutputReference" -> {value}
      [] value.py = "list" -> UNION {RefsOf(value.v[i]) : i \in 1..Len(value.v)}
      [] OTHER -> {}

\* The user_input step is the first step and the only one of its kind, and
\* every reference names the id of a step earlier in the list.
UserInputFirstBackwardRefs(steps) ==
    /\ Len(steps) >= 1
    /\ steps[1].type = USER_INPUT
    /\ \A i \in 2..Len(steps) : steps[i].type # USER_INPUT
    /\ \A i \in 1..Len(steps) : \A f \in DOMAIN steps[i].inputs :
          \A r \in RefsOf(steps[i].inputs[f]) : \E j \in 1..(i - 1) : steps[j].step_id = r.step

\* The value a reference points to: the runtime argument for the user-input
\* step, the output value of the upstream step otherwise; literals as given.
RECURSIVE PointedValue(_, _, _)
PointedValue(value, steps, args) ==
    CASE value.py = "StepOutputReference" ->
            IF value.step = steps[1].step_id
            THEN dict_get(args, value.output, None)
            ELSE LET up == CHOOSE j \in 1..Len(steps) : steps[j].step_id = value.step
                 IN  dict_get(DeclaredBody(steps[up]), value.output, None)
      [] value.py = "list" -> PyList([i \in 1..Len(value.v) |-> PointedValue(value.v[i], steps, args)])
      [] OTHER -> value

\* C2: for a workflow whose user_input step is first and whose references
\* point only to earlier steps, read with a log that holds one entry per
\* non-user-input step in list order, each supplying exactly the step's
\* declared outputs, get_execution_details reports for every such step the
\* inputs with each reference replaced by the value it pointed to and the
\* literal inputs unchanged.
C2_RoundTrip ==
    LET steps == input.workflow.steps
        idx == CallStepIndices(steps, 1)
    IN  (/\ pc = "read"
         /\ resp.fetch_ok
         /\ UserInputFirstBackwardRefs(steps)
         /\ executions["e1"].step_entries = SyntheticLog(steps, 1)
         /\ "json" \in DOMAIN executions["e1"].argument)
        => /\ resp.raised = None
           /\ resp.result # None
           /\ Len(resp.result.step_entries) = 1 + Len(idx)
           /\ \A k \in 1..Len(idx) :
                /\ resp.result.step_entries[k + 1].step_id = steps[idx[k]].step_id
                /\ resp.result.step_entries[k + 1].step_inputs =
                     [f \in DOMAIN steps[idx[k]].inputs |->
                        PointedValue(steps[idx[k]].inputs[f], steps, json_loads(executions["e1"].argument))]

\* The same round trip for the definitions whose step ids are pairwise distinct.
RoundTripDistinctIds ==
    (\A i, j \in 1..Len(input.workflow.steps) :
        input.workflow.steps[i].step_id = input.workflow.steps[j].step_id => i = j)
    => C2_RoundTrip

RoundTripDistinctIdsReached ==
    /\ pc = "read"
    /\ resp.fetch_ok
    /\ Len(input.workflow.steps) = 3
    /\ UserInputFirstBackwardRefs(input.workflow.steps)
    /\ \A i, j \in 1..3 : input.workflow.steps[i].step_id = input.workflow.steps[j].step_id => i = j
    /\ executions["e1"].step_entries = SyntheticLog(input.workflow.steps, 1)
    /\ resp.result.step_entries[3].step_inputs = [prompt |-> OutputValue("a", "x")]

ExecuteReturned == resp'.op = "execute_workflow" /\ resp'.raised = None /\ ids'.executions # ids.executions

\* The row the call is said to create for the workflow w it looked up.
RunRowAsClaimed(row, w) ==
    /\ row.id = resp'.result.v
    /\ row.status = "running"
    /\ row.workflow_id = resp'.workflow_id
    /\ row.user_id = resp'.user_id
    /\ DOMAIN row.workflow_snapshot = {"id", "user_id", "name", "description", "steps"}
    /\ row.workflow_snapshot.id = w.id
    /\ row.workflow_snapshot.user_id = w.user_id
    /\ row.workflow_snapshot.name = w.name
    /\ row.workflow_snapshot.description = w.description
    /\ row.workflow_snapshot.steps = [i \in 1..Len(w.steps) |-> dump_step(w.steps[i])]

\* C4 as stated: every execute_workflow call that returns creates exactly one
\* WorkflowRun row, with the execution id as id, status running, the call's
\* workflow_id and user_id, and a snapshot that is the full definition at
\* trigger time without the created / updated timestamps.
C4_ExactlyOneRun ==
    [][ExecuteReturned =>
          /\ DOMAIN workflow_runs' \ DOMAIN workflow_runs = {resp'.result.v}
          /\ RunRowAsClaimed(workflow_runs'[resp'.result.v], workflows[resp'.workflow_id])]_vars

\* C4, amended: an execute_workflow call that returns creates at most one
\* WorkflowRun row and changes no other row; it creates none when the write
\* of the row fails, and the row it creates has the execution id as id,
\* status running, the call's workflow_id and user_id, and a snapshot that is
\* the full definition at trigger time without the two timestamps.
C4_AtMostOneRun ==
    [][ExecuteReturned =>
          \/ workflow_runs' = workflow_runs
          \/ /\ resp'.result.v \notin DOMAIN workflow_runs
             /\ DOMAIN workflow_runs' = DOMAIN workflow_runs \cup {resp'.result.v}
             /\ \A e \in DOMAIN workflow_runs : workflow_runs'[e] = workflow_runs[e]
             /\ RunRowAsClaimed(workflow_runs'[resp'.result.v], workflows[resp'.workflow_id])]_vars

\* User 2 triggered the workflow of user 1 and the row of the run is stored
\* with the snapshot of the definition.
C4_Witness ==
    /\ resp.op = "execute_workflow"
    /\ resp.raised = None
    /\ resp.user_id = 2
    /\ resp.result.v \in DOMAIN workflow_runs
    /\ workflow_runs[resp.result.v].user_id = 2
    /\ workflow_runs[resp.result.v].status = RUNNING
    /\ workflow_runs[resp.result.v].workspace_id = PyInt(7)
    /\ workflow_runs[resp.result.v].workflow_snapshot.name = "n1"

(***************************************************************************)
(* C5                                                                      *)
(***************************************************************************)
\* C5: whenever the remote engine accepted the execution of an
\* execute_workflow call (the engine holds a new execution), the call returns
\* that execution's id and raises nothing, whether or not the WorkflowRun
\* row was created.
C5_SnapshotFailureSwallowed ==
    [][(resp'.op = "execute_workflow" /\ DOMAIN executions' # DOMAIN executions) =>
          /\ resp'.raised = None
          /\ DOMAIN executions' \ DOMAIN executions = {resp'.result.v}
          /\ resp'.result.v = split_last(executions'[resp'.result.v].name)]_vars

\* execute_workflow just returned the id of an execution the engine runs
\* and no WorkflowRun row was written for it.
C5_Witness ==
    /\ resp.op = "execute_workflow"
    /\ resp.raised = None
    /\ resp.result.v \in DOMAIN executions
    /\ resp.result.v \notin DOMAIN workflow_runs

(***************************************************************************)
(* C6                                                                      *)
(***************************************************************************)
\* The response of a trace read for a run with a row carries the definition
\* rehydrated from the row's snapshot and the entries resolved against it.
SnapshotDefinitionReturned ==
    (/\ resp.op = "get_execution"
     /\ resp.result # None
     /\ split_last(resp.result.id) \in DOMAIN workflow_runs)
    => LET e == executions[split_last(resp.result.id)]
           snap == rehydrate(workflow_runs[split_last(resp.result.id)].workflow_snapshot)
           args == json_loads(e.argument)
       IN  /\ "workflow_definition" \in DOMAIN resp.result
           /\ resp.result.workflow_definition = workflow_dump(snap)
           /\ resp.result.step_entries \in
                {formatted_step_entries(snap, args, e, e.step_entries),
                 formatted_step_entries(snap, args, e, <<>>)}

\* C6: an update_workflow call changes no WorkflowRun row (so no snapshot),
\* and get_execution_details for a run that has a row resolves the trace
\* against, and returns as workflow_definition, the definition of the row's
\* snapshot, whatever the live definition is by then.
C6_SnapshotFrozen ==
    [][/\ resp'.op = "update_workflow" => workflow_runs' = workflow_runs
       /\ SnapshotDefinitionReturned']_vars

\* The workflow was edited to "n2" after the run was triggered; the trace
\* read returns the definition "n1" and the prompt resolved through the
\* reference that only "n1" has.
C6_Witness ==
    /\ resp.op = "get_execution"
    /\ resp.result # None
    /\ split_last(resp.result.id) \in DOMAIN workflow_runs
    /\ workflow_id_of(1) \in DOMAIN workflows
    /\ workflows[workflow_id_of(1)].name = "n2"
    /\ resp.result.workflow_definition.name = "n1"
    /\ Len(resp.result.step_entries) = 2
    /\ resp.result.step_entries[2].step_inputs = [prompt |-> PyStr("hi")]

(***************************************************************************)
(* C7                                                                      *)
(***************************************************************************)
\* C7: a delete of a workflow leaves every WorkflowRun row in place with its
\* snapshot unchanged.
C7_RunsSurviveDelete ==
    [][(resp'.op = "delete_workflow" /\ resp'.raised = None) =>
          \A e \in DOMAIN workflow_runs :
             /\ e \in DOMAIN workflow_runs'
             /\ workflow_runs'[e].workflow_snapshot = workflow_runs[e].workflow_snapshot]_vars

(***************************************************************************)
(* C8                                                                      *)
(***************************************************************************)
\* The trace read of this step reached the lazy status update of run e.
ReadRun(e) ==
    /\ resp'.op = "get_execution"
    /\ resp'.execution_id = e
    /\ \/ resp'.raised = PyStr("IndexError")
       \/ /\ resp'.result # None
          /\ "workflow_definition" \in DOMAIN resp'.result
    /\ e \in DOMAIN executions

\* C8 as stated: a get_execution_details call that finds the row running and
\* the remote execution failed writes status failed and a completed_at
\* value; a call that finds the row in another status writes nothing.
C8_FirstReadWrites ==
    [][\A e \in DOMAIN workflow_runs :
          ReadRun(e) =>
             /\ (workflow_runs[e].status = RUNNING /\ executions[e].state = "FAILED")
                   => /\ workflow_runs'[e].status = FAILED
                      /\ workflow_runs'[e].completed_at # None
             /\ workflow_runs[e].status # RUNNING
                   => ~resp'.wrote /\ workflow_runs' = workflow_runs]_vars

\* C8, amended: a get_execution_details call that finds the row running and
\* the remote execution failed either writes status failed and the
\* execution's end time as completed_at, or, when the row update fails,
\* writes nothing and leaves the row running; a call that finds the row in
\* another status writes nothing.  So the write happens once, at the first
\* call whose row update succeeds.
C8_ReconciledOnce ==
    [][\A e \in DOMAIN workflow_runs :
          ReadRun(e) =>
             /\ (workflow_runs[e].status = RUNNING /\ executions[e].state = "FAILED")
                   => IF resp'.wrote
                      THEN workflow_runs' = [workflow_runs EXCEPT ![e] =
                               [@ EXCEPT !.status = FAILED, !.completed_at = executions[e].end_time]]
                      ELSE workflow_runs' = workflow_runs
             /\ workflow_runs[e].status # RUNNING
                   => ~resp'.wrote /\ workflow_runs' = workflow_runs]_vars

\* A trace read after the reconciliation: the row is failed with its
\* completed_at, the read returned the trace and wrote nothing.
C8_Witness ==
    /\ resp.op = "get_execution"
    /\ resp.result # None
    /\ ~resp.wrote
    /\ split_last(resp.result.id) \in DOMAIN workflow_runs
    /\ workflow_runs[split_last(resp.result.id)].status = FAILED
    /\ workflow_runs[split_last(resp.result.id)].completed_at = DateTime(1)
    /\ executions[split_last(resp.result.id)].state = "FAILED"

(***************************************************************************)
(* C9                                                                      *)
(***************************************************************************)
\* C9: no run row ever has status scheduled; the status of a row changes
\* only in a trace read, only from running, and only to completed, failed or
\* canceled, so a completed, failed or canceled row keeps its status.
C9_StatusMachine ==
    [][\A e \in DOMAIN workflow_runs' :
          /\ workflow_runs'[e].status # SCHEDULED
          /\ (e \in DOMAIN workflow_runs /\ workflow_runs'[e].status # workflow_runs[e].status)
                => /\ resp'.op = "get_execution"
                   /\ workflow_runs[e].status = RUNNING
                   /\ workflow_runs'[e].status \in {COMPLETED, FAILED, CANCELED}]_vars

\* A trace read moved the row of a cancelled execution to canceled.
C9_Witness ==
    /\ resp.op = "get_execution"
    /\ resp.wrote
    /\ \E e \in DOMAIN workflow_runs :
          /\ workflow_runs[e].status = CANCELED
          /\ executions[e].state = "CANCELLED"

(***************************************************************************)
(* C10                                                                     *)
(***************************************************************************)
\* C10: every trace get_execution_details returns starts with the virtual
\* user-input entry, whose state is succeeded and whose start_time and
\* end_time both are the execution's start time, whatever entries the log
\* holds (none, the sentinel, unknown steps, entries without payload).
C10_VirtualEntry ==
    (/\ pc = "read"
     /\ resp.result # None)
    => LET e == executions["e1"]
           v == resp.result.step_entries[1]
       IN  /\ v.step_id = input.workflow.steps[1].step_id
           /\ v.state = "STATE_SUCCEEDED"
           /\ v.start_time = v.end_time
           /\ v.start_time = (IF e.start_time # None THEN isoformat(e.start_time) ELSE None)

\* A finished execution whose log names an unknown step was read: its trace
\* is the virtual entry alone, stamped with the start time.
C10_Witness ==
    /\ pc = "read"
    /\ resp.fetch_ok
    /\ resp.result # None
    /\ executions["e1"].end_time = DateTime(2)
    /\ \E k \in 1..Len(executions["e1"].step_entries) : executions["e1"].step_entries[k].step = "zz"
    /\ Len(resp.result.step_entries) = 1
    /\ resp.result.step_entries[1].start_time = PyStr("T1")

(***************************************************************************)
(* C11                                                                     *)
(***************************************************************************)
\* The log the read worked on, and the argument map of the execution.
TraceLog == IF resp.fetch_ok THEN executions["e1"].step_entries ELSE <<>>

TraceUserInputs ==
    IF "json" \in DOMAIN executions["e1"].argument THEN json_loads(executions["e1"].argument) ELSE <<>>

\* Positions of the log entries that name a step of the definition.
RECURSIVE KeptPositions(_, _, _)
KeptPositions(steps, log, k) ==
    IF k > Len(log) THEN <<>>
    ELSE IF log[k].step # "end" /\ \E i \in 1..Len(steps) : steps[i].step_id = log[k].step
    THEN <<k>> \o KeptPositions(steps, log, k + 1)
    ELSE KeptPositions(steps, log, k + 1)

\* The step of the definition a log entry names (the first with that id).
StepNamed(steps, step_id) ==
    steps[CHOOSE i \in 1..Len(steps) : steps[i].step_id = step_id /\ \A j \in 1..(i - 1) : steps[j].step_id # step_id]

\* The body the entry at a position of the log captured.
EntryBody(entry) ==
    dict_get(dict_get(dict_get(dict_get(entry, "variableData", <<>>), "variables", <<>>),
                      entry.step \o "_result", <<>>), "body", <<>>)

\* The values a reference may resolve to at log position k: null; the
\* argument of that name when the referenced step is a user-input step; the
\* output of that name in the body of an entry of the referenced step at a
\* position before k.
VisibleValues(ref, steps, log, k, args) ==
    {None}
    \cup (IF ref.step \in UserInputIds(steps) THEN {dict_get(args, ref.output, None)} ELSE {})
    \cup {dict_get(EntryBody(log[j]), ref.output, None) : j \in {i \in 1..(k - 1) : log[i].step = ref.step}}

\* resolved is a resolution of value that shows only visible values.
RECURSIVE ResolvedFromEarlier(_, _, _, _, _, _)
ResolvedFromEarlier(value, resolved, steps, log, k, args) ==
    CASE value.py = "StepOutputReference" -> resolved \in VisibleValues(value, steps, log, k, args)
      [] value.py = "list" ->
            /\ resolved.py = "list"
            /\ Len(resolved.v) = Len(value.v)
            /\ \A i \in 1..Len(value.v) : ResolvedFromEarlier(value.v[i], resolved.v[i], steps, log, k, args)
      [] OTHER -> resolved = value

\* The resolved inputs of every kept entry show only visible values.
TraceSeesOnlyEarlier(steps, log, args, entries) ==
    LET kept == KeptPositions(steps, log, 1)
    IN  /\ Len(entries) = 1 + Len(kept)
        /\ \A n \in 1..Len(kept) :
             LET step == StepNamed(steps, log[kept[n]].step)
             IN  /\ DOMAIN entries[n + 1].step_inputs = DOMAIN step.inputs
                 /\ \A f \in DOMAIN step.inputs :
                      ResolvedFromEarlier(step.inputs[f], entries[n + 1].step_inputs[f],
                                          steps, log, kept[n], args)

\* C11: when get_execution_details processes log entry k, a step-output
\* reference in that step's inputs resolves to the value produced by the
\* referenced step only if that step is the user-input step or has a log
\* entry at a position before k; a reference to a step whose entry comes
\* later, or that has no entry, or to an output the step did not produce,
\* resolves to null.
C11_OnlyEarlierOutputs ==
    (/\ pc = "read"
     /\ resp.raised = None
     /\ resp.result # None)
    => TraceSeesOnlyEarlier(input.workflow.steps, TraceLog, TraceUserInputs, resp.result.step_entries)

\* The same for the definitions whose first step is the user_input step.
OnlyEarlierOutputsUserInputFirst ==
    (Len(input.workflow.steps) >= 1 => input.workflow.steps[1].type = USER_INPUT)
    => C11_OnlyEarlierOutputs

\* A read of a definition led by its user_input step, with a reference to a
\* step that is logged later resolved to null and a reference to a step
\* logged earlier resolved to that step's output.
OnlyEarlierOutputsUserInputFirstReached ==
    /\ pc = "read"
    /\ resp.fetch_ok
    /\ resp.result # None
    /\ Len(input.workflow.steps) = 3
    /\ input.workflow.steps[1].type = USER_INPUT
    /\ Len(resp.result.step_entries) = 3
    /\ resp.result.step_entries[2].step_inputs = [prompt |-> None]
    /\ resp.result.step_entries[3].step_inputs = [prompt |-> OutputValue("a", "x")]

(***************************************************************************)
(* C12                                                                     *)
(***************************************************************************)
\* C12: for an execution the remote engine knows, of a workflow the caller
\* owns, whatever definition create or update stored (an empty step list
\* included), with or without run row and log entries, the trace read
\* returns a response and raises nothing.
C12_TraceNeverRaises ==
    (/\ resp.op = "get_execution"
     /\ resp.raised # PyInt(404))
    => /\ resp.raised = None
       /\ resp.result # None

(***************************************************************************)
(* C13                                                                     *)
(***************************************************************************)
\* The definition a trace read of execution e of workflow w had to use: the
\* one rehydrated from the run row's snapshot when the row exists, the live
\* definition of w otherwise.
DefinitionToUse(w, e) ==
    IF e \in DOMAIN workflow_runs
    THEN rehydrate(workflow_runs[e].workflow_snapshot)
    ELSE workflows[w]

\* C13: a trace read that returns uses the definition rehydrated from the
\* snapshot when a run row exists for the execution id and the live
\* definition of the workflow id when none exists; the workflow_definition
\* it returns is the definition the entries were resolved against.
C13_DefinitionChoice ==
    (/\ resp.op = "get_execution"
     /\ resp.result # None)
    => LET e == executions[resp.execution_id]
           used == DefinitionToUse(resp.workflow_id, resp.execution_id)
       IN  /\ "workflow_definition" \in DOMAIN resp.result
           /\ resp.result.workflow_definition = workflow_dump(used)
           /\ resp.result.step_entries \in
                {formatted_step_entries(used, json_loads(e.argument), e, log) : log \in {e.step_entries, <<>>}}

\* An execution whose row write failed was read after the workflow was
\* edited to "n2": the trace carries the live definition and the literal
\* prompt only "n2" has.
C13_Witness ==
    /\ resp.op = "get_execution"
    /\ resp.result # None
    /\ resp.execution_id \notin DOMAIN workflow_runs
    /\ workflows[resp.workflow_id].name = "n2"
    /\ resp.result.workflow_definition.name = "n2"
    /\ Len(resp.result.step_entries) = 2
    /\ resp.result.step_entries[2].step_inputs = [prompt |-> PyStr("hello")]

(***************************************************************************)
(* C14                                                                     *)
(***************************************************************************)
\* The execution-level fields of a response.
ExecutionLevelInfo(result, e) ==
    /\ result.id = e.name
    /\ result.state = e.state
    /\ result.result = (IF e.state = "SUCCEEDED" THEN e.result ELSE None)
    /\ result.error = (IF e.error # None THEN e.error.context ELSE None)
    /\ result.duration = duration_of(e, clock)

\* C14: when the step-log fetch fails, get_execution_details still returns
\* the execution's id, state, result, error and duration, and a step_entries
\* list that holds the virtual user-input entry and nothing else.
C14_FetchFailureIsEmptyLog ==
    (/\ pc = "read"
     /\ ~resp.fetch_ok)
    => /\ resp.raised = None
       /\ resp.result # None
       /\ ExecutionLevelInfo(resp.result, executions["e1"])
       /\ Len(resp.result.step_entries) = 1
       /\ resp.result.step_entries[1].step_id = input.workflow.steps[1].step_id
       /\ resp.result.step_entries[1].step_outputs = TraceUserInputs

\* The same for the definitions that have a step.
FetchFailureIsEmptyLogWithSteps ==
    Len(input.workflow.steps) >= 1 => C14_FetchFailureIsEmptyLog

\* The log fetch failed for a failed execution whose log has entries of the
\* definition's steps: the response has the error and the virtual entry only.
FetchFailureIsEmptyLogWithStepsReached ==
    /\ pc = "read"
    /\ ~resp.fetch_ok
    /\ resp.result # None
    /\ Len(executions["e1"].step_entries) = 2
    /\ KeptPositions(input.workflow.steps, executions["e1"].step_entries, 1) = <<1, 2>>
    /\ resp.result.error = PyStr("boom")
    /\ resp.result.duration = 1
    /\ Len(resp.result.step_entries) = 1

(***************************************************************************)
(* C15                                                                     *)
(***************************************************************************)
\* C15: batch_execute_workflow returns one result per input row, at the
\* row's position and with the row's row_index; a row that fails yields a
\* FAILED result with an error text and no execution id, and every other
\* row still succeeds with its own execution id (a row fails exactly when no
\* execution was started for it, whatever the other rows did); successful
\* rows carry pairwise distinct execution ids.
C15_RowsIndependentOrdered ==
    pc = "returned" =>
       /\ Len(output) = Len(input.items)
       /\ \A i \in 1..Len(input.items) :
            /\ output[i].row_index = input.items[i].row_index
            /\ output[i].status \in {"SUCCESS", "FAILED"}
            /\ output[i].status = "FAILED" =>
                 /\ output[i].error # None
                 /\ output[i].error.v # ""
                 /\ output[i].execution_id = None
            /\ output[i].status = "SUCCESS" =>
                 /\ output[i].execution_id # None
                 /\ output[i].execution_id.v \in DOMAIN executions
                 /\ executions[output[i].execution_id.v].argument = json_dumps(tasks[i].processed_args)
            /\ (output[i].status = "FAILED") = (tasks[i].execution_id = None)
       /\ \A i, j \in 1..Len(input.items) :
            (i # j /\ output[i].status = "SUCCESS" /\ output[j].status = "SUCCESS")
               => output[i].execution_id # output[j].execution_id

\* Three rows, the second with a storage URI and no workspace id: the first
\* and the third succeeded with distinct execution ids, the second failed
\* naming the missing workspace id.
C15_Witness ==
    /\ pc = "returned"
    /\ Len(output) = 3
    /\ "workspace_id" \notin DOMAIN input.items[2].args
    /\ output[1].status = "SUCCESS"
    /\ output[3].status = "SUCCESS"
    /\ output[1].execution_id # output[3].execution_id
    /\ output[2] = BatchItemResultDto(20, "FAILED", None,
                      PyStr("Invalid GCS URI in 'x': No workspace_id provided for GCS ingestion."))
    /\ uris_of(input.items[3].args, 1) # <<>>

(***************************************************************************)
(* C16                                                                     *)
(***************************************************************************)
\* The rows whose create_from_gcs_uri call is in progress.
Ingesting == {i \in DOMAIN tasks : tasks[i].pc = "ingesting"}

\* C16: within one batch_execute_workflow call at most one
\* create_from_gcs_uri call is in progress at any time, across all rows and
\* all URIs of a row.
C16_IngestionExclusive ==
    pc = "batch" => Cardinality(Ingesting) <= 1

\* One row ingests the second URI of its list while another row waits for
\* the lock.
C16_Witness ==
    /\ pc = "batch"
    /\ \E i, j \in DOMAIN tasks :
          /\ i # j
          /\ tasks[i].pc = "ingesting"
          /\ tasks[i].todo[1].pos = 2
          /\ tasks[j].pc = "want_lock"
          /\ db_lock = i

(***************************************************************************)
(* C17                                                                     *)
(***************************************************************************)
\* C17: deleting a workflow whose remote registration is already absent: the
\* engine's not-found answer on deregistration is treated as success, the
\* call completes without error and the local record is removed (unless the
\* local delete itself fails).
C17_DeleteToleratesAbsentRemote ==
    [][(/\ resp'.op = "delete_workflow"
        /\ resp'.answer = "not_found"
        /\ resp'.raised # PyStr("SQLAlchemyError"))
       => /\ resp'.raised = None
          /\ resp'.workflow_id \in DOMAIN workflows
          /\ resp'.workflow_id \notin DOMAIN workflows'
          /\ gcp_workflows' = gcp_workflows]_vars

\* A delete whose local step had failed left the workflow stored without its
\* registration; the delete was called again and removed the record.
C17_Witness ==
    /\ resp.op = "delete_workflow"
    /\ resp.answer = "not_found"
    /\ resp.raised = None
    /\ resp.workflow_id \notin DOMAIN workflows
    /\ resp.workflow_id \notin DOMAIN gcp_workflows
    /\ ids.workflows = 1

(***************************************************************************)
(* C18                                                                     *)
(***************************************************************************)
\* C18: a call of the execute endpoint for a registered workflow starts one
\* remote execution of that workflow whose argument map holds the caller's
\* bearer token under user_auth_header, and returns that execution's id.
C18_EndpointTriggersWithToken ==
    [][(/\ resp'.op = "workflow_execute"
        /\ resp'.workflow_id \in DOMAIN workflows
        /\ resp'.workflow_id \in DOMAIN gcp_workflows)
       => /\ resp'.raised = None
          /\ \E e \in DOMAIN executions' :
               /\ DOMAIN executions' = DOMAIN executions \cup {e}
               /\ e \notin DOMAIN executions
               /\ executions'[e].name[6] = resp'.workflow_id
               /\ dict_get(json_loads(executions'[e].argument), "user_auth_header", None) = resp'.authorization
               /\ resp'.result = [execution_id |-> PyStr(e)]]_vars

(***************************************************************************)
(* C19                                                                     *)
(***************************************************************************)
\* The stored workflow w holds the DTO's name, description and step list.
OverwrittenWith(w, workflow_dto) ==
    /\ w.name = workflow_dto.name
    /\ w.description = workflow_dto.description
    /\ w.steps = workflow_dto.steps

\* The source registered under id is the compilation of the DTO's step list.
RegisteredFrom(registry, id, workflow_dto) ==
    registry[id] = generate_workflow_yaml(WorkflowModel(id, 0, workflow_dto.name, workflow_dto.description,
                                                        workflow_dto.steps, None, None))

\* An update_workflow step that passed the endpoint's checks.
UpdateCalled == resp'.op = "update_workflow" /\ resp'.raised \notin {PyInt(404), PyInt(403)}

\* C19 as stated: the stored workflow is overwritten with the DTO first,
\* then the definition is compiled and re-registered under the same id (so
\* the stored workflow is the DTO's whenever the overwrite went through,
\* the re-registration failing or not); after a successful update the
\* stored step list and the remote source are those of the DTO.
C19_OverwriteThenRegister ==
    [][UpdateCalled =>
         /\ resp'.raised # PyStr("SQLAlchemyError")
               => OverwrittenWith(workflows'[resp'.workflow_id], resp'.workflow_dto)
         /\ resp'.raised = None
               => RegisteredFrom(gcp_workflows', resp'.workflow_id, resp'.workflow_dto)]_vars

\* C19, amended: the new definition is compiled and re-registered remotely
\* under the same id first, then the stored workflow is overwritten: a
\* failed re-registration changes neither store, a failed overwrite leaves
\* the new source registered and the stored workflow as it was; after a
\* successful update the stored name, description and step list are the
\* DTO's and the remote source is the compilation of the DTO's step list,
\* with no step of the previous definition left in either.
C19_RegisterThenOverwrite ==
    [][UpdateCalled =>
         /\ DOMAIN workflows' = DOMAIN workflows
         /\ DOMAIN gcp_workflows' = DOMAIN gcp_workflows
         /\ \A w \in DOMAIN workflows \ {resp'.workflow_id} : workflows'[w] = workflows[w]
         /\ \A w \in DOMAIN gcp_workflows \ {resp'.workflow_id} : gcp_workflows'[w] = gcp_workflows[w]
         /\ resp'.raised = PyStr("GoogleAPICallError")
               => workflows' = workflows /\ gcp_workflows' = gcp_workflows
         /\ resp'.raised = PyStr("SQLAlchemyError")
               => /\ workflows' = workflows
                  /\ RegisteredFrom(gcp_workflows', resp'.workflow_id, resp'.workflow_dto)
         /\ resp'.raised = None
               => /\ OverwrittenWith(workflows'[resp'.workflow_id], resp'.workflow_dto)
                  /\ workflows'[resp'.workflow_id].id = resp'.workflow_id
                  /\ workflows'[resp'.workflow_id].user_id = workflows[resp'.workflow_id].user_id
                  /\ RegisteredFrom(gcp_workflows', resp'.workflow_id, resp'.workflow_dto)]_vars

\* The two-step workflow "n1" was updated with the DTO "n3", which has no
\* step: the stored step list is empty and the remote source has no call step.
C19_Witness ==
    /\ resp.op = "update_workflow"
    /\ resp.raised = None
    /\ resp.workflow_dto.name = "n3"
    /\ workflows[resp.workflow_id].steps = <<>>
    /\ gcp_workflows[resp.workflow_id].main.steps = <<>>
    /\ workflows[resp.workflow_id].created_at # workflows[resp.workflow_id].updated_at

(***************************************************************************)
(* C20                                                                     *)
(***************************************************************************)
\* The outputs of the user_input steps from step i on, in encounter order.
RECURSIVE UserInputOutputs(_, _)
UserInputOutputs(steps, i) ==
    IF i > Len(steps) THEN <<>>
    ELSE IF steps[i].type = USER_INPUT THEN steps[i].outputs \o UserInputOutputs(steps, i + 1)
    ELSE UserInputOutputs(steps, i + 1)

\* C20 as stated: for a workflow whose first step is user_input with outputs
\* a then b, the parameter list of the compiled definition is
\* user_auth_header, a, b.
C20_ParameterList ==
    (/\ pc = "compiled"
     /\ Len(input.workflow.steps) >= 1
     /\ input.workflow.steps[1].type = USER_INPUT)
    => output.main.params = <<"user_auth_header">> \o input.workflow.steps[1].outputs

\* C20, amended: the compiled definition declares the single parameter args;
\* the list user_auth_header, a, b (the default name, then the outputs of
\* the user_input steps in encounter order) is what the compiler collects in
\* workflow_params, which it does not emit.
C20_SingleParameterBag ==
    (/\ pc = "compiled"
     /\ Len(input.workflow.steps) >= 1
     /\ input.workflow.steps[1].type = USER_INPUT)
    => /\ output.main.params = <<"args">>
       /\ compile_loop(input.workflow.steps, 1,
              [user_input_step_id |-> None, workflow_params |-> <<"user_auth_header">>,
               gcp_steps |-> <<>>]).workflow_params
            = <<"user_auth_header">> \o UserInputOutputs(input.workflow.steps, 1)

\* A definition led by a user_input step with outputs x then y was compiled
\* together with a step that reads the parameter x.
C20_Witness ==
    /\ pc = "compiled"
    /\ Len(input.workflow.steps) = 2
    /\ input.workflow.steps[1].type = USER_INPUT
    /\ input.workflow.steps[1].outputs = <<"x", "y">>
    /\ output.main.params = <<"args">>
    /\ Len(output.main.steps) = 1
    /\ \E f \in DOMAIN output.main.steps[1].args.body.inputs :
          output.main.steps[1].args.body.inputs[f] = PyStr("${args.x}")

(***************************************************************************)
(* C21                                                                     *)
(***************************************************************************)
\* C21: the compiled definition holds exactly one call step per
\* non-user-input step of the workflow, in the workflow's step order, each
\* named by its step_id and capturing its result in <step_id>_result; a
\* user_input step emits no call step.
C21_OneCallPerStep ==
    pc = "compiled" =>
        LET steps == input.workflow.steps
            idx == CallStepIndices(steps, 1)
            calls == output.main.steps
        IN  /\ Len(calls) = Len(idx)
            /\ \A k \in 1..Len(idx) :
                  /\ calls[k].name = steps[idx[k]].step_id
                  /\ calls[k].call = "http.post"
                  /\ calls[k].result = steps[idx[k]].step_id \o "_result"
            /\ Len(calls) = Cardinality({i \in 1..Len(steps) : steps[i].type # USER_INPUT})

\* A user_input step followed by a call step was compiled: the one call
\* emitted is named after the second step and captures <step_id>_result.
C21_Witness ==
    /\ pc = "compiled"
    /\ Len(input.workflow.steps) = 2
    /\ input.workflow.steps[1].type = USER_INPUT
    /\ input.workflow.steps[2].type # USER_INPUT
    /\ Len(output.main.steps) = 1
    /\ output.main.steps[1].name = input.workflow.steps[2].step_id
    /\ output.main.steps[1].result = input.workflow.steps[2].step_id \o "_result"

(***************************************************************************)
(* C22                                                                     *)
(***************************************************************************)
\* The workflows that are both stored and registered.
StoredAndRegistered == DOMAIN workflows \cap DOMAIN gcp_workflows

\* C22: every workflow definition that create_workflow or update_workflow
\* stores and registers has its user_input step, when it has one, as the
\* first step of the list.
C22_UserInputFirst ==
    \A w \in StoredAndRegistered :
        \A i \in 1..Len(workflows[w].steps) :
            workflows[w].steps[i].type = USER_INPUT => i = 1

(***************************************************************************)
(* C23                                                                     *)
(***************************************************************************)
\* The steps s whose result variable a compiled input value reads, as
\* ${s_result.body.o}.
RECURSIVE ResultVariablesRead(_)
ResultVariablesRead(value) ==
    CASE value.py = "str" ->
            {sid \in StepIds : \E o \in {"x", "y"} :
                value.v = "${" \o sid \o "_result.body." \o o \o "}"}
      [] value.py = "list" -> UNION {ResultVariablesRead(value.v[i]) : i \in 1..Len(value.v)}
      [] OTHER -> {}

\* Every reference of the step list names the id of an earlier step.
BackwardRefs(steps) ==
    \A i \in 1..Len(steps) : \A f \in DOMAIN steps[i].inputs :
        \A r \in RefsOf(steps[i].inputs[f]) : \E j \in 1..(i - 1) : steps[j].step_id = r.step

\* Every result variable a call step reads is captured by an earlier call.
ReadsCapturedResults(calls) ==
    \A k \in 1..Len(calls) : \A f \in DOMAIN calls[k].args.body.inputs :
        \A sid \in ResultVariablesRead(calls[k].args.body.inputs[f]) :
            \E j \in 1..(k - 1) : calls[j].result = sid \o "_result"

\* C23: in every workflow definition that is stored and compiled, every
\* step-output reference names a step_id that appears earlier in the step
\* list (no forward, self or cyclic reference), so every <step>_result
\* expression of the compiled definition refers to a result variable
\* captured by an earlier call step.
C23_BackwardReferences ==
    \A w \in StoredAndRegistered :
        /\ BackwardRefs(workflows[w].steps)
        /\ ReadsCapturedResults(gcp_workflows[w].main.steps)

(***************************************************************************)
(* C24                                                                     *)
(***************************************************************************)
\* What the claim says of a request that is answered in this step: success
\* only after a poll observed the job as completed, an error when the job
\* was observed as failed, and the timeout error exactly when the loop
\* finds the overall timeout elapsed.
PolledBeforeResponding ==
    /\ output'.status_code = 200 => tasks'[1].polls >= 1 /\ tasks'[1].observed = "completed"
    /\ tasks'[1].observed = "failed" => output'.status_code = 500
    /\ output'.status_code = 504 <=> (pc = "loop" /\ timed_out(clock, tasks[1].start_time))

\* C24 as stated: each of the six executor endpoints (generate_text,
\* generate_image, edit_image, generate_video, virtual_try_on,
\* generate_audio) responds with success only after it polled the job-status
\* endpoint and observed the job as completed; it reports an error when the
\* job is observed as failed and a timeout error when the overall timeout
\* elapses first.
C24_AllSixPoll ==
    [][pc' = "responded" => PolledBeforeResponding]_vars

\* C24, amended: the five endpoints that submit a job (generate_image,
\* edit_image, generate_video, virtual_try_on, generate_audio) respond as
\* stated; generate_text submits no job and responds without any poll, with
\* the generated text or with the error of the model call.
C24_JobEndpointsPoll ==
    [][pc' = "responded" =>
          IF input.endpoint = "generate_text"
          THEN /\ tasks'[1].polls = 0
               /\ output'.status_code \in {200, 500}
               /\ output'.status_code = 200 => "generated_text" \in DOMAIN output'.body.v
          ELSE PolledBeforeResponding]_vars

\* generate_video answered with the id of the job after a poll that saw the
\* job in progress and a later one that saw it completed.
C24_Witness ==
    /\ pc = "responded"
    /\ input.endpoint = "generate_video"
    /\ output = Returned(PyDict([generated_video |-> PyInt(1)]))
    /\ tasks[1].polls >= 2
    /\ tasks[1].observed = "completed"
    /\ clock >= initial_delay + poll_interval

(***************************************************************************)
(* C25                                                                     *)
(***************************************************************************)
ReadOps == {"get_workflow", "get_execution", "list_executions"}

\* The requester of the read just answered owns the workflow it named, as
\* the tables stood when the call was made.
RequesterOwns ==
    /\ resp'.workflow_id \in DOMAIN workflows
    /\ workflows[resp'.workflow_id].user_id = resp'.user_id

\* C25: fetch-by-id, get-execution and list-executions return data only when
\* the workflow exists and its user_id is the requesting user's id;
\* otherwise they answer not-found, do not contact the remote engine and
\* write no run row.
C25_OwnerCheckedReads ==
    [][resp'.op \in ReadOps =>
          /\ resp'.result # None => RequesterOwns
          /\ ~RequesterOwns =>
                /\ resp'.raised = PyInt(404)
                /\ resp'.result = None
                /\ ~resp'.contacted
                /\ workflow_runs' = workflow_runs]_vars

\* User 2 asked for an execution of user 1's workflow whose run row an
\* owner's read would have reconciled, and got not-found.
C25_Witness ==
    /\ resp.op = "get_execution"
    /\ resp.user_id = 2
    /\ resp.workflow_id \in DOMAIN workflows
    /\ workflows[resp.workflow_id].user_id = 1
    /\ resp.raised = PyInt(404)
    /\ resp.execution_id \in DOMAIN workflow_runs
    /\ workflow_runs[resp.execution_id].status = RUNNING
    /\ resp.execution_id \in DOMAIN executions
    /\ executions[resp.execution_id].state = "SUCCEEDED"

(***************************************************************************)
(* C26                                                                     *)
(***************************************************************************)
\* The run status the claim gives for each terminal state of the engine.
ClaimedFinalStatus ==
    [SUCCEEDED |-> COMPLETED, FAILED |-> FAILED, CANCELLED |-> CANCELED]

\* C26: lazy reconciliation maps the remote terminal states to run statuses
\* (succeeded to completed, failed to failed, cancelled to canceled) and
\* sets completed_at together with the status; when the remote execution is
\* in a non-terminal state, when no snapshot row exists or when the row is no
\* longer running, get_execution_details writes nothing to the run store.
C26_TerminalStateMapping ==
    [][resp'.op = "get_execution" =>
          LET e == resp'.execution_id IN
          IF /\ e \in DOMAIN workflow_runs
             /\ workflow_runs[e].status = RUNNING
             /\ e \in DOMAIN executions
             /\ executions[e].state \in DOMAIN ClaimedFinalStatus
          THEN \/ workflow_runs' = workflow_runs /\ ~resp'.wrote
               \/ /\ resp'.wrote
                  /\ workflow_runs' = [workflow_runs EXCEPT ![e] =
                        [@ EXCEPT !.status = ClaimedFinalStatus[executions[e].state],
                                  !.completed_at = IF executions[e].end_time # None
                                                   THEN executions[e].end_time
                                                   ELSE DateTime(clock)]]
                  /\ workflow_runs'[e].completed_at # None
          ELSE workflow_runs' = workflow_runs /\ ~resp'.wrote]_vars

\* A trace read has just reconciled a cancelled execution: the row is
\* canceled and carries its completion time.
C26_Witness ==
    /\ resp.op = "get_execution"
    /\ resp.wrote
    /\ resp.execution_id \in DOMAIN workflow_runs
    /\ executions[resp.execution_id].state = "CANCELLED"
    /\ workflow_runs[resp.execution_id].status = CANCELED
    /\ workflow_runs[resp.execution_id].completed_at = executions[resp.execution_id].end_time

(***************************************************************************)
(* C27                                                                     *)
(***************************************************************************)
\* The fields of a run row other than status and completed_at.
FrozenRunFields == {"id", "workflow_id", "user_id", "workspace_id", "started_at", "workflow_snapshot"}

\* C27: a WorkflowRun row is immutable apart from status and completed_at:
\* no operation of the service (trace read, update or re-execution of the
\* workflow, batch execution) changes the id, workflow_id, user_id,
\* workspace_id, started_at or workflow_snapshot of an existing run row.
C27_RunRowFrozen ==
    [][\A e \in DOMAIN workflow_runs \cap DOMAIN workflow_runs' :
          /\ DOMAIN workflow_runs'[e] = DOMAIN workflow_runs[e]
          /\ \A f \in FrozenRunFields : workflow_runs'[e][f] = workflow_runs[e][f]]_vars

\* The workflow was edited after its run started and a trace read then
\* reconciled the row: the row is completed and still holds the definition
\* it was started with.
C27_Witness ==
    /\ resp.op = "get_execution"
    /\ resp.wrote
    /\ resp.execution_id \in DOMAIN workflow_runs
    /\ workflow_runs[resp.execution_id].status = COMPLETED
    /\ workflow_runs[resp.execution_id].completed_at # None
    /\ resp.workflow_id \in DOMAIN workflows
    /\ workflow_runs[resp.execution_id].workflow_snapshot.name = "n1"
    /\ workflows[resp.workflow_id].name = "n2"

(***************************************************************************)
(* C28                                                                     *)
(***************************************************************************)
\* C28: the returned step_entries start with the virtual user-input entry,
\* whose outputs are the raw execution argument map, followed by one entry
\* per remote log entry in log order, without the terminal sentinel entry
\* (step end) and without the entries whose step id matches no step of the
\* definition used; each kept entry carries the state, createTime and
\* updateTime the log reported and the body of its <step_id>_result
\* variable as outputs.
C28_TraceShape ==
    (/\ pc = "read"
     /\ resp.result # None)
    => LET steps == input.workflow.steps
           log == TraceLog
           kept == KeptPositions(steps, log, 1)
           entries == resp.result.step_entries
       IN  /\ Len(entries) = 1 + Len(kept)
           /\ entries[1].step_outputs = TraceUserInputs
           /\ \A k \in 1..Len(kept) :
                 LET logged == log[kept[k]]
                     shown == entries[k + 1]
                 IN  /\ shown.step_id = logged.step
                     /\ shown.state = dict_get(logged, "state", None)
                     /\ shown.start_time = dict_get(logged, "createTime", None)
                     /\ shown.end_time = dict_get(logged, "updateTime", None)
                     /\ shown.step_outputs = EntryBody(logged)

\* A log of the sentinel followed by an entry of step b was read against a
\* definition that has b: the trace is the virtual entry, then b's entry
\* with its times and its body.
C28_Witness ==
    /\ pc = "read"
    /\ resp.fetch_ok
    /\ resp.result # None
    /\ Len(executions["e1"].step_entries) = 2
    /\ executions["e1"].step_entries[1].step = "end"
    /\ executions["e1"].step_entries[2].step = "b"
    /\ Len(resp.result.step_entries) = 2
    /\ resp.result.step_entries[1].step_outputs = TraceArgs
    /\ resp.result.step_entries[2].step_id = "b"
    /\ resp.result.step_entries[2].start_time = PyStr("c-b")
    /\ resp.result.step_entries[2].step_outputs = [x |-> OutputValue("b", "x")]

(***************************************************************************)
(* C29                                                                     *)
(***************************************************************************)
\* C29: delete_by_id deregisters remotely before it deletes locally, and a
\* remote deregistration failure other than not-found aborts the delete: the
\* error is raised and the local workflow record is still present
\* afterwards.
C29_RemoteFailureAbortsDelete ==
    [][(resp'.op = "delete_workflow" /\ resp'.raised # PyInt(404)) =>
          /\ resp'.answer = "error" =>
                /\ resp'.raised = PyStr("GoogleAPICallError")
                /\ resp'.workflow_id \in DOMAIN workflows'
                /\ workflows' = workflows
                /\ workflow_runs' = workflow_runs
                /\ gcp_workflows' = gcp_workflows
          /\ resp'.workflow_id \notin DOMAIN workflows' => resp'.workflow_id \notin DOMAIN gcp_workflows'
          /\ resp'.raised = PyStr("SQLAlchemyError") =>
                /\ resp'.workflow_id \in DOMAIN workflows'
                /\ resp'.workflow_id \notin DOMAIN gcp_workflows']_vars

\* The engine refused to deregister a registered workflow: the call raised
\* and the workflow is still stored and registered.
C29_Witness ==
    /\ resp.op = "delete_workflow"
    /\ resp.answer = "error"
    /\ resp.raised = PyStr("GoogleAPICallError")
    /\ resp.workflow_id \in DOMAIN workflows
    /\ resp.workflow_id \in DOMAIN gcp_workflows

(***************************************************************************)
(* C30                                                                     *)
(***************************************************************************)
\* emitted holds given with everything that is not a step-output reference
\* as it was given, sequences element by element; a media-reference object
\* is given as an object and emitted as the mapping of its fields.
RECURSIVE LiteralsAsGiven(_, _)
LiteralsAsGiven(given, emitted) ==
    CASE given.py = "StepOutputReference" -> TRUE
      [] given.py = "list" ->
            /\ emitted.py = "list"
            /\ Len(emitted.v) = Len(given.v)
            /\ \A i \in 1..Len(given.v) : LiteralsAsGiven(given.v[i], emitted.v[i])
      [] given.py = "ReferenceMediaOrAsset" ->
            emitted = PyDict([previewUrl |-> PyStr(given.previewUrl),
                              sourceAssetId |-> given.sourceAssetId,
                              sourceMediaItem |-> given.sourceMediaItem])
      [] OTHER -> emitted = given

\* C30: compile-time resolution leaves everything that is not a step-output
\* reference or a sequence unchanged: literal strings and integers, null
\* optional fields and media-reference objects are emitted in the call body
\* exactly as given, and a step's settings are emitted as its config without
\* any rewriting.
C30_LiteralsUnchanged ==
    pc = "compiled" =>
        LET steps == input.workflow.steps
            idx == CallStepIndices(steps, 1)
            calls == output.main.steps
        IN  \A k \in 1..Len(idx) :
               /\ DOMAIN calls[k].args.body.inputs = DOMAIN steps[idx[k]].inputs
               /\ \A f \in DOMAIN steps[idx[k]].inputs :
                     LiteralsAsGiven(steps[idx[k]].inputs[f], calls[k].args.body.inputs[f])
               /\ calls[k].args.body.config = steps[idx[k]].settings

\* Two steps were compiled: one with a literal prompt and a media reference
\* as input_images, one whose input_image is a list of a reference and a
\* media reference.
C30_Witness ==
    /\ pc = "compiled"
    /\ Len(output.main.steps) = 2
    /\ input.workflow.steps[1].type = GENERATE_TEXT
    /\ input.workflow.steps[1].inputs.input_images = Media
    /\ output.main.steps[1].args.body.inputs.prompt = PyStr("hello")
    /\ output.main.steps[1].args.body.inputs.input_videos = None
    /\ output.main.steps[1].args.body.inputs.input_images.py = "dict"
    /\ output.main.steps[1].args.body.inputs.input_images.v["previewUrl"] = PyStr("gs://p")
    /\ input.workflow.steps[2].type = CROP_IMAGE
    /\ output.main.steps[2].args.body.inputs.input_image.v[2] = output.main.steps[1].args.body.inputs.input_images
    /\ output.main.steps[2].args.body.config.fill_aspect_ratio = PyBool(TRUE)

(***************************************************************************)
(* C31                                                                     *)
(***************************************************************************)
\* A storage-URI string at the top level of an argument map, or among the
\* elements of a top-level list.
HasStorageUri(args) ==
    \E k \in DOMAIN args :
       \/ is_gcs_string(args[k])
       \/ /\ args[k].py = "list"
          /\ \E j \in 1..Len(args[k].v) : is_gcs_string(args[k].v[j])

\* C31: in every row that batch_execute_workflow executes, the argument map
\* handed to execute_workflow contains no gs:// string, neither as a
\* top-level string value nor as an element of a top-level list of strings:
\* the argument of every execution the call started is free of storage URIs.
C31_NoStorageUriExecuted ==
    \A e \in DOMAIN executions : ~HasStorageUri(json_loads(executions[e].argument))

(***************************************************************************)
(* C32                                                                     *)
(***************************************************************************)
\* The rows with a persistence operation in progress: the asset ingestion,
\* the workflow lookup of execute_workflow, the creation of the run row.
Persisting == {i \in DOMAIN tasks : tasks[i].pc \in {"ingesting", "lookup", "inserting"}}

\* C32: within one batch_execute_workflow call no persistence operation of
\* one row is in progress at the same time as a persistence operation of
\* another row.
C32_PersistenceExclusive ==
    pc = "batch" => Cardinality(Persisting) <= 1

(***************************************************************************)
(* C33                                                                     *)
(***************************************************************************)
\* One iteration of the loop of _poll_job_status, from its timeout test to
\* its return, its raise or its sleep.
PollOutcome ==
    pc = "loop" =>
       IF clock - tasks[1].start_time > 300
       THEN /\ pc' = "responded"
            /\ output'.status_code = 504
            /\ tasks' = tasks
       ELSE LET last == tasks'[1].last
            IN  /\ tasks'[1].polls = tasks[1].polls + 1
                /\ (pc' = "responded" /\ output'.status_code = 200)
                      <=> (last.status_code = 200 /\ last.status = "completed")
                /\ (last.status_code = 200 /\ last.status = "failed")
                      => (pc' = "responded" /\ output'.status_code = 500)
                /\ last.status_code \notin {0, 200}
                      => (pc' = "responded" /\ output'.status_code = last.status_code)
                /\ (last = NoAnswer \/ (last.status_code = 200 /\ last.status \notin {"completed", "failed"}))
                      => (pc' = "sleep" /\ output' = output)
                /\ pc' = "responded" => output'.status_code # 504

\* C33: _poll_job_status always terminates, provided every status request
\* returns or fails: it returns success exactly when a poll observes status
\* completed, raises a 500 error when a poll observes status failed, raises
\* the response's status code on a non-200 poll response, keeps polling
\* after a transport exception or an unfinished status, and raises a 504
\* timeout error at the first loop iteration that starts more than 300
\* seconds after polling began.
C33_PollTerminates ==
    /\ [][PollOutcome]_vars
    /\ (pc = "initial_delay") ~> (pc = "responded")

\* The loop ran into its timeout: after polls that brought transport
\* exceptions and unfinished statuses the request was answered 504 by the
\* first iteration that started more than 300 seconds after the loop began.
C33_Witness ==
    /\ pc = "responded"
    /\ output.status_code = 504
    /\ clock - tasks[1].start_time > 300
    /\ tasks[1].polls >= 50
    /\ tasks[1].observed = "processing"
    /\ tasks[1].last = NoAnswer

(***************************************************************************)
(* C34                                                                     *)
(***************************************************************************)
\* C34: every call step the compiler emits targets an endpoint the executor
\* facade exposes: the URL of the compiled HTTP POST of each non-user-input
\* step is a route registered by the workflows-executor controller.
C34_CallsTargetRoutes ==
    pc = "compiled" =>
        \A k \in 1..Len(output.main.steps) : output.main.steps[k].args.url \in ExecutorRoutes

(***************************************************************************)
(* C35                                                                     *)
(***************************************************************************)
\* C35: between the calls of create, update and delete (each of which may
\* fail at its remote step or at its local persistence step) a workflow id
\* is stored locally if and only if it is registered remotely, and the
\* remotely registered source is the compilation of the locally stored
\* step list.
C35_StoresAgree ==
    /\ DOMAIN workflows = DOMAIN gcp_workflows
    /\ \A id \in DOMAIN workflows \cap DOMAIN gcp_workflows :
          gcp_workflows[id] = generate_workflow_yaml(workflows[id])

(***************************************************************************)
(* C36                                                                     *)
(***************************************************************************)
\* C36: in every interleaving of execute_workflow with a concurrent
\* update_workflow of the same workflow, the definition stored in the run's
\* snapshot is the definition whose compiled source the remote engine
\* executed for that execution id.
C36_SnapshotIsWhatRan ==
    \A e \in DOMAIN workflow_runs \cap DOMAIN executions :
       generate_workflow_yaml(rehydrate(workflow_runs[e].workflow_snapshot)) = executions[e].workflow_revision

(***************************************************************************)
(* C37                                                                     *)
(***************************************************************************)
\* The step changed the stored workflow id, removed it, or changed its
\* registration.
Changes(id) ==
    \/ id \notin DOMAIN workflows'
    \/ workflows'[id] # workflows[id]
    \/ (id \in DOMAIN gcp_workflows /\ id \notin DOMAIN gcp_workflows')
    \/ (id \in DOMAIN gcp_workflows /\ id \in DOMAIN gcp_workflows' /\ gcp_workflows'[id] # gcp_workflows[id])

\* The step started a remote execution of the workflow id.
Runs(id) ==
    \E e \in DOMAIN executions' \ DOMAIN executions : executions'[e].name[6] = id

\* An update or a delete changes a stored workflow only for its owner, and
\* leaves its user_id as it is.
OwnerChanges ==
    resp'.op \in {"update_workflow", "delete_workflow"} =>
       \A id \in DOMAIN workflows :
          Changes(id) => /\ resp'.user_id = workflows[id].user_id
                         /\ id \in DOMAIN workflows' => workflows'[id].user_id = workflows[id].user_id

\* An execute call starts an execution of a stored workflow only for its owner.
OwnerRuns ==
    resp'.op \in {"execute_workflow", "workflow_execute"} =>
       \A id \in DOMAIN workflows : Runs(id) => resp'.user_id = workflows[id].user_id

C37_OnlyOwnerChanges ==
    [][OwnerChanges]_vars

(***************************************************************************)
(* C38                                                                     *)
(***************************************************************************)
\* The value under user_auth_header in the argument map of the execution
\* read (None when the map has no such key).
BearerToken ==
    IF executions["e1"].argument = PyStr("") THEN None
    ELSE dict_get(json_loads(executions["e1"].argument), "user_auth_header", None)

\* The values of a dict of a trace entry, the elements of its lists included.
ShownValues(d) ==
    {d[k] : k \in DOMAIN d}
    \cup UNION {{d[k].v[j] : j \in 1..Len(d[k].v)} : k \in {f \in DOMAIN d : d[f].py = "list"}}

\* C38: the caller's bearer token is never returned to a reader: no
\* response of get_execution_details (neither the virtual user-input
\* entry's outputs nor any step's resolved inputs) contains the value that
\* is in the execution's argument map under user_auth_header.
C38_TokenNotReturned ==
    (/\ pc = "read"
     /\ resp.result # None
     /\ BearerToken # None)
    => \A k \in 1..Len(resp.result.step_entries) :
          /\ BearerToken \notin ShownValues(resp.result.step_entries[k].step_outputs)
          /\ BearerToken \notin ShownValues(resp.result.step_entries[k].step_inputs)

(***************************************************************************)
(* C39                                                                     *)
(***************************************************************************)
\* The ids of the assets created for the URIs of row i: those its
\* processed_args refer to.
AssetsOfRow(i) ==
    LET args == tasks[i].processed_args
        refs == {args[k] : k \in DOMAIN args}
                \cup UNION {{args[k].v[j] : j \in 1..Len(args[k].v)} : k \in {f \in DOMAIN args : args[f].py = "list"}}
    IN  {r.v["sourceAssetId"].v : r \in {x \in refs : x.py = "dict"}}

\* C39: a batch row that ends FAILED has no lasting effect: it started no
\* remote execution, created no run row, and left no asset record behind,
\* also when a later URI of the row failed to ingest after earlier URIs of
\* the same row were ingested.
C39_FailedRowLeavesNothing ==
    pc = "returned" =>
       \A i \in DOMAIN output :
          output[i].status = "FAILED" =>
             /\ tasks[i].execution_id = None
             /\ \A e \in DOMAIN workflow_runs : PyStr(e) # tasks[i].execution_id
             /\ AssetsOfRow(i) = {}

(***************************************************************************)
(* C40                                                                     *)
(***************************************************************************)
\* C40: every image generation job reaches a terminal status: once
\* start_image_generation_job created the media item with status processing
\* and the background worker ran, the media item is eventually set to
\* completed or failed on every path of the worker, including failures of
\* prompt enhancement, of source-asset lookup and of the generation call
\* after its at most three rate-limit attempts.
C40_JobReachesTerminalStatus ==
    (pc = "queued") ~> (1 \in DOMAIN media_items /\ media_items[1].status \in {JOB_COMPLETED, JOB_FAILED})

====
